---- MODULE Spec2Model ----
(***************************************************************************)
(* Enrichment cache and refresh pipeline of the AKS dashboard server       *)
(* (src/server/index.ts, the revision at lines 570-1913).                  *)
(*                                                                         *)
(* Program strings that the code computes with (titles, bodies, keys,      *)
(* inference texts) are sequences of one-character strings.  Program       *)
(* values that can be null are records tagged by the field t.              *)
(*                                                                         *)
(* Scheduling: Node runs one callback at a time.  An action is the code    *)
(* that runs from one external await (inference call, graph call, timer)   *)
(* to the next one; gateway paths that return without an external call     *)
(* are part of the caller's step.                                          *)
(***************************************************************************)
EXTENDS Integers, Sequences, FiniteSets, TLC

(***************************************************************************)
(* Program constants                                                       *)
(***************************************************************************)
CACHE_DURATION == 86400000
GITHUB_CACHE_DURATION == 86400000
oneMinute == 60000

(***************************************************************************)
(* Bounds of the model                                                     *)
(***************************************************************************)
MaxTicks == 3
NumCallers == 2
MaxCalls == 3
NumReqs == 2
NumClients == 2
NumRuns == 1
MaxFailures == 2
MaxMinutes == 10
MaxComments == 3
MaxStamp == 2
MaxTitle == 2
MaxBody == 2

(***************************************************************************)
(* Strings                                                                 *)
(***************************************************************************)
LowerChars == <<"a","b","c","d","e","f","g","h","i","j","k","l","m",
                "n","o","p","q","r","s","t","u","v","w","x","y","z">>
UpperChars == <<"A","B","C","D","E","F","G","H","I","J","K","L","M",
                "N","O","P","Q","R","S","T","U","V","W","X","Y","Z">>
DigitChars == <<"0","1","2","3","4","5","6","7","8","9">>
Whitespace == {" ", "\n", "\t"}

Range(s) == {s[i] : i \in 1..Len(s)}

\* the character class [a-zA-Z0-9]
AlNum == Range(LowerChars) \cup Range(UpperChars) \cup Range(DigitChars)

\* String.prototype.toLowerCase, one character
ToLowerChar(c) ==
  IF c \in Range(UpperChars)
    THEN LowerChars[CHOOSE i \in 1..26 : UpperChars[i] = c]
    ELSE c

toLowerCase(s) == [i \in 1..Len(s) |-> ToLowerChar(s[i])]

\* s.substring(0, n)
substring0(s, n) == SubSeq(s, 1, IF Len(s) < n THEN Len(s) ELSE n)

\* s.includes(sub)
includes(s, sub) ==
  \E i \in 1..(Len(s) - Len(sub) + 1) : SubSeq(s, i, i + Len(sub) - 1) = sub

RECURSIVE trimStart(_)
trimStart(s) ==
  IF s # <<>> /\ Head(s) \in Whitespace THEN trimStart(Tail(s)) ELSE s

RECURSIVE trimEnd(_)
trimEnd(s) ==
  IF s # <<>> /\ s[Len(s)] \in Whitespace
    THEN trimEnd(SubSeq(s, 1, Len(s) - 1)) ELSE s

\* String.prototype.trim
trim(s) == trimEnd(trimStart(s))

\* template-literal formatting of a non-negative integer
RECURSIVE NumToString(_)
NumToString(n) ==
  IF n < 10 THEN <<DigitChars[n + 1]>>
  ELSE NumToString(n \div 10) \o <<DigitChars[(n % 10) + 1]>>

\* title.replace(/[^a-zA-Z0-9]/g, '_')
replaceNonAlnum(s) == [i \in 1..Len(s) |-> IF s[i] \in AlNum THEN s[i] ELSE "_"]

(***************************************************************************)
(* Values: null, strings, JSON texts and the objects they parse to         *)
(***************************************************************************)
Null == [t |-> "null"]
Str(s) == [t |-> "string", s |-> s]
\* a string whose characters are the JSON text of the value v, possibly
\* wrapped in a markdown code fence ("none", "json" or "plain")
JsonText(v, fence) == [t |-> "jsontext", v |-> v, fence |-> fence]
\* the JSON value null
JsonNull == [t |-> "jsonnull"]
\* a JSON object with the fields the gateway looks at; <<>> is a missing
\* (or empty) field
JsonObj(date, text, currentStatus, nextSteps, analysis) ==
  [t |-> "object", date |-> date, text |-> text,
   currentStatus |-> currentStatus, nextSteps |-> nextSteps,
   analysis |-> analysis]

IsNull(v) == v.t = "null"

\* JSON.stringify of an object
JSONstringify(v) == JsonText(v, "none")

\* does JSON.parse(x) throw?  Plain strings of the model ("Q2", "oops")
\* are not JSON texts; a fenced text is not one either.
JSONparseThrows(x) == ~(x.t = "jsontext" /\ x.fence = "none")
JSONparse(x) == x.v

\* the result.trim() / startsWith('```') / replace() chain that strips a
\* markdown fence (index.ts 1096-1102)
stripFence(x) ==
  IF x.t = "jsontext" THEN JsonText(x.v, "none") ELSE x

FailSentinel == Str(<<"O","p","e","n","A","I"," ","e","x","t","r","a","c",
                      "t","i","o","n"," ","f","a","i","l","e","d">>)

(***************************************************************************)
(* State                                                                   *)
(***************************************************************************)
VARIABLES
  now,        \* Date.now()
  ticks,      \* number of clock advances so far
  aiCache,    \* table ai_timeline_cache: cache_key -> row
  aiWrites,   \* history: number of upserts per cache_key
  call,       \* direct callers of the gateway operations
  ncalls,     \* history: number of gateway calls started
  githubCache,            \* table github_cache, row id = 1
  aksIssuesCache,         \* table aks_issues_cache, row id = 1
  failedExtractionQueue,  \* the in-memory retry queue
  currentProgress,        \* the last progress event
  upstream,   \* what the graph service holds: pages of nodes per collection
  req,        \* the running /api/roadmap and /api/aks-issues handlers
  nreqs,      \* history: number of collection requests made
  progressClients,  \* the Set of subscribed /api/progress responses
  sockets,    \* the /api/progress responses: their state, what they got
  published,  \* history: number of calls of sendProgress
  worker,     \* the interval timer and the runs of processRetryQueue
  fnArgs,     \* the arguments of a function looked at on its own
  fnResult    \* and what it returned

clockVars == <<now, ticks>>
aiVars == <<aiCache, aiWrites>>
callVars == <<call, ncalls>>
snapshotVars == <<githubCache, aksIssuesCache>>
refreshVars == <<failedExtractionQueue, currentProgress, upstream, req, nreqs>>

progressVars == <<progressClients, sockets, published>>
workerVars == <<worker>>
fnVars == <<fnArgs, fnResult>>

vars == <<now, ticks, aiCache, aiWrites, call, ncalls, githubCache,
          aksIssuesCache, failedExtractionQueue, currentProgress, upstream,
          req, nreqs, progressClients, sockets, published, worker, fnArgs,
          fnResult>>

\* the observers of the progress stream.  A socket is "new" before its
\* GET /api/progress, then "open"; a write to a "broken" one throws; a
\* "closed" one has had its close event.  The fields received, last and
\* since are history: the number of events written to it, the last of
\* them, and the number of events published when it subscribed.
Clients == 1..NumClients

NoProgress == [step |-> "", current |-> 0, total |-> 0]

NewSocket == [st |-> "new", received |-> 0, last |-> NoProgress, since |-> 0]

\* the runs of processRetryQueue that can be under way at a time
Runs == 1..NumRuns

\* a run of processRetryQueue: "call" while it waits for the inference
\* service, "sleep" in its 5s pause until wakeAt; the head of
\* itemsToProcess is the item of the current iteration
IdleRun == [pc |-> "idle", itemsToProcess |-> <<>>, key |-> <<>>, wakeAt |-> 0]

\* lastTick is the time the interval timer last fired (the server starts
\* at 0); failures counts the inference calls of the worker that failed
IdleWorker == [lastTick |-> 0, failures |-> 0,
               runs |-> [k \in Runs |-> IdleRun]]

(***************************************************************************)
(* Durable cache store: inference table                                    *)
(***************************************************************************)
NoRow == [t |-> "norow"]

\* loadAICache(cacheKey) on the table c
loadAICache(c, cacheKey) ==
  IF cacheKey \in DOMAIN c
    THEN [t |-> "row", result |-> c[cacheKey].result,
          timestamp |-> c[cacheKey].timestamp,
          failed |-> c[cacheKey].failed]
    ELSE NoRow

\* the table after saveAICache(cacheKey, result, failed) run on table c
saveAICache(c, cacheKey, result, failed) ==
  [k \in DOMAIN c \cup {cacheKey} |->
     IF k = cacheKey
       THEN [result |-> result, timestamp |-> now, failed |-> failed]
       ELSE c[k]]

getCacheKey(title, body) ==
  substring0(replaceNonAlnum(title), 50) \o <<"_">> \o NumToString(Len(body))

\* a validity window that ends after one minute
isCacheValid_short(entry) == now - entry.timestamp < oneMinute

isCacheValid(entry) == now - entry.timestamp < CACHE_DURATION

(***************************************************************************)
(* Comments                                                                *)
(***************************************************************************)
\* a comment node: author is the login ("" when the author is null), name
\* the user's name ("" when null)
Comment(author, name, body, createdAt, url) ==
  [author |-> author, name |-> name, body |-> body,
   createdAt |-> createdAt, url |-> url]

RECURSIVE SelectSeqBy(_, _)
\* Array.prototype.filter with the set of kept elements
SelectSeqBy(s, keep) ==
  IF s = <<>> THEN <<>>
  ELSE IF Head(s) \in keep THEN <<Head(s)>> \o SelectSeqBy(Tail(s), keep)
  ELSE SelectSeqBy(Tail(s), keep)

RECURSIVE insertNewestFirst(_, _)
insertNewestFirst(c, s) ==
  IF s = <<>> THEN <<c>>
  ELSE IF Head(s).createdAt >= c.createdAt
         THEN <<Head(s)>> \o insertNewestFirst(c, Tail(s))
         ELSE <<c>> \o s

RECURSIVE sortNewestFirst(_)
\* comments.sort((a, b) => new Date(b.createdAt) - new Date(a.createdAt)):
\* a stable sort, newest first
sortNewestFirst(s) ==
  IF s = <<>> THEN <<>>
  ELSE LET rest == sortNewestFirst(SubSeq(s, 1, Len(s) - 1))
       IN  insertNewestFirst(s[Len(s)], rest)

RECURSIVE sumBodyLength(_)
sumBodyLength(s) ==
  IF s = <<>> THEN 0 ELSE Len(Head(s).body) + sumBodyLength(Tail(s))

(***************************************************************************)
(* Inference gateway.  Each operation is split at its one external await:  *)
(* X_begin is the code up to the call (or up to an early return), X_end    *)
(* the code that runs when the call has returned or thrown.                *)
(*   begin: [kind, ret, key]  kind = "skip" | "hit" | "cooldown" | "call"  *)
(*   end:   [ret, result, failed]  the value returned and the row written  *)
(* A response is [ok, content]: ok = FALSE when the call throws, content   *)
(* is response.choices[0]?.message?.content (Null when absent).            *)
(***************************************************************************)
Begin(kind, ret, key) == [kind |-> kind, ret |-> ret, key |-> key]
End(ret, result, failed) == [ret |-> ret, result |-> result, failed |-> failed]

\* !body || body.trim().length === 0
isBlank(body) == Len(trim(body)) = 0

\* a string value is falsy when it is undefined/null or empty
falsy(v) == IsNull(v) \/ (v.t = "string" /\ v.s = <<>>)

\* content?.trim()
trimContent(v) == IF v.t = "string" THEN Str(trim(v.s)) ELSE v

\* a failed row suppresses the call as long as it is valid
extractAvailabilityDateWithAI_begin_nocooldown(c, body, title) ==
  IF isBlank(body) THEN Begin("skip", Null, <<>>)
  ELSE
    LET cacheKey == getCacheKey(title, body)
        cached == loadAICache(c, cacheKey)
    IN  IF cached # NoRow /\ isCacheValid(cached)
          THEN IF cached.failed
                 THEN Begin("cooldown", FailSentinel, cacheKey)
                 ELSE Begin("hit", cached.result, cacheKey)
          ELSE Begin("call", Null, cacheKey)

extractAvailabilityDateWithAI_begin(c, body, title) ==
  IF isBlank(body) THEN Begin("skip", Null, <<>>)
  ELSE
    LET cacheKey == getCacheKey(title, body)
        cached == loadAICache(c, cacheKey)
    IN  IF cached # NoRow /\ isCacheValid(cached)
          THEN IF cached.failed
                 THEN IF now - cached.timestamp < oneMinute
                        THEN Begin("cooldown", FailSentinel, cacheKey)
                        ELSE Begin("call", Null, cacheKey)
                 ELSE Begin("hit", cached.result, cacheKey)
          ELSE Begin("call", Null, cacheKey)

\* the catch block records the attempt as a success
extractAvailabilityDateWithAI_end_uncaught(response) ==
  IF ~response.ok THEN End(FailSentinel, Null, FALSE)
  ELSE
    LET result == trimContent(response.content)
    IN  End(IF falsy(result) THEN Null ELSE result,
            IF falsy(result) THEN Null ELSE result, FALSE)

extractAvailabilityDateWithAI_end(response) ==
  IF ~response.ok THEN End(FailSentinel, Null, TRUE)
  ELSE
    LET result == trimContent(response.content)
        lower == IF result.t = "string" THEN toLowerCase(result.s) ELSE <<>>
        finalResult ==
          IF falsy(result)
             \/ (result.t = "string"
                 /\ (lower = <<"n","o","n","e">>
                     \/ includes(lower, <<"n","o"," ","t","i","m","e","l","i","n","e">>)))
            THEN Null ELSE result
    IN  End(finalResult, finalResult, FALSE)

\* the filter without its test of the author's login
msCommentsOf_anyone(comments, assigneeLogins) ==
  SelectSeqBy(comments,
    {c \in Range(comments) :
       c.author # "" /\ c.body # <<>> /\ Len(trim(c.body)) > 0})

\* comments.filter(author && body && body.trim().length > 0
\*                 && assigneeLogins.includes(author.login))
msCommentsOf(comments, assigneeLogins) ==
  SelectSeqBy(comments,
    {c \in Range(comments) :
       c.author # "" /\ c.body # <<>> /\ Len(trim(c.body)) > 0
       /\ c.author \in assigneeLogins})

etaCacheKey(msComments, title) ==
  <<"e","t","a","_">> \o substring0(replaceNonAlnum(title), 30) \o <<"_">>
    \o NumToString(Len(msComments)) \o <<"_">>
    \o NumToString(sumBodyLength(msComments))

\* the value a cache hit of the ETA and analysis operations returns
parseCached(result) ==
  IF ~falsy(result)
    THEN IF JSONparseThrows(result) THEN Null ELSE JSONparse(result)
    ELSE Null

extractEtaFromComments_begin(c, comments, assigneeLogins, title) ==
  IF Len(comments) = 0 THEN Begin("skip", Null, <<>>)
  ELSE
    LET msComments == msCommentsOf(comments, assigneeLogins)
    IN  IF Len(msComments) = 0 THEN Begin("skip", Null, <<>>)
        ELSE
          LET cacheKey == etaCacheKey(msComments, title)
              cached == loadAICache(c, cacheKey)
          IN  IF cached # NoRow /\ isCacheValid(cached)
                THEN IF cached.failed
                       THEN IF now - cached.timestamp < oneMinute
                              THEN Begin("cooldown", Null, cacheKey)
                              ELSE Begin("call", Null, cacheKey)
                       ELSE Begin("hit", parseCached(cached.result), cacheKey)
                ELSE Begin("call", Null, cacheKey)

\* msComments.find(...): the first comment, newest first, whose body
\* contains the text or whose first 100 characters the text contains
findSourceComment(sorted, text) ==
  LET matches(c) ==
        \/ includes(toLowerCase(c.body), toLowerCase(text))
        \/ includes(toLowerCase(text), toLowerCase(substring0(c.body, 100)))
      hits == {i \in 1..Len(sorted) : matches(sorted[i])}
  IN  IF hits = {} THEN 0
      ELSE CHOOSE i \in hits : \A j \in hits : i <= j

EtaResult(date, author, commentText, url) ==
  [t |-> "eta", date |-> date, author |-> author,
   commentText |-> commentText, url |-> url]

extractEtaFromComments_end(comments, assigneeLogins, response) ==
  IF ~response.ok THEN End(Null, Null, TRUE)
  ELSE
    LET result == trimContent(response.content)
    IN  IF falsy(result) THEN End(Null, Null, FALSE)
        ELSE
          LET cleanResult == stripFence(result)
          IN  IF JSONparseThrows(cleanResult) THEN End(Null, Null, TRUE)
              ELSE
                LET parsed == JSONparse(cleanResult)
                IN  IF parsed.t # "object" THEN End(Null, Null, TRUE)
                    ELSE IF parsed.date = <<>> \/ parsed.date = <<"N","o","n","e">>
                            \/ parsed.text = <<>> \/ parsed.text = <<"N","o","n","e">>
                      THEN End(Null, Null, FALSE)
                    ELSE
                      LET sorted == sortNewestFirst(msCommentsOf(comments, assigneeLogins))
                          i == findSourceComment(sorted, parsed.text)
                          finalResult ==
                            EtaResult(parsed.date,
                              IF i # 0
                                THEN (IF sorted[i].name # "" THEN sorted[i].name
                                      ELSE sorted[i].author)
                                ELSE "Microsoft Team",
                              parsed.text,
                              IF i # 0 THEN sorted[i].url
                              ELSE IF sorted[1].url # "" THEN sorted[1].url ELSE "#")
                      IN  End(finalResult, JSONstringify(finalResult), FALSE)

analysisCacheKey(title, body, comments) ==
  <<"a","n","a","l","y","s","i","s","_">>
    \o substring0(replaceNonAlnum(title), 30) \o <<"_">>
    \o NumToString(Len(body)) \o <<"_">> \o NumToString(Len(comments))

\* the cache is consulted before the body is looked at
analyzeIssueWithAI_begin_lookupfirst(c, title, body, comments) ==
  LET cacheKey == analysisCacheKey(title, body, comments)
      cached == loadAICache(c, cacheKey)
  IN  IF cached # NoRow /\ isCacheValid(cached)
        THEN IF cached.failed
               THEN IF now - cached.timestamp < oneMinute
                      THEN Begin("cooldown", Null, cacheKey)
                      ELSE Begin("call", Null, cacheKey)
               ELSE Begin("hit", parseCached(cached.result), cacheKey)
        ELSE IF isBlank(body) THEN Begin("skip", Null, <<>>)
        ELSE Begin("call", Null, cacheKey)

analyzeIssueWithAI_begin(c, title, body, comments) ==
  IF isBlank(body) THEN Begin("skip", Null, <<>>)
  ELSE
    LET cacheKey == analysisCacheKey(title, body, comments)
        cached == loadAICache(c, cacheKey)
    IN  IF cached # NoRow /\ isCacheValid(cached)
          THEN IF cached.failed
                 THEN IF now - cached.timestamp < oneMinute
                        THEN Begin("cooldown", Null, cacheKey)
                        ELSE Begin("call", Null, cacheKey)
                 ELSE Begin("hit", parseCached(cached.result), cacheKey)
          ELSE Begin("call", Null, cacheKey)

analyzeIssueWithAI_end(response) ==
  IF ~response.ok THEN End(Null, Null, TRUE)
  ELSE
    LET result == trimContent(response.content)
    IN  IF falsy(result) THEN End(Null, Null, FALSE)
        ELSE
          LET cleanResult == stripFence(result)
          IN  IF JSONparseThrows(cleanResult) THEN End(Null, Null, TRUE)
              ELSE
                LET parsed == JSONparse(cleanResult)
                IN  IF parsed.t # "object" THEN End(Null, Null, TRUE)
                    ELSE IF parsed.currentStatus = <<>> \/ parsed.nextSteps = <<>>
                            \/ parsed.analysis = <<>>
                      THEN End(Null, Null, FALSE)
                    ELSE End(parsed, JSONstringify(parsed), FALSE)

(***************************************************************************)
(* Direct callers of the gateway (specification GwSpec)                    *)
(***************************************************************************)
Ops == {"timeline", "eta", "analysis"}

\* inputs of the gateway calls: title, body, comments, assignee logins.
\* The timeline key of the first input and the ETA key of the second are
\* both eta_a_1_1.  The third to fifth inputs have a blank or empty body
\* and no comment, or no non-blank comment, of an assignee; the third and
\* the fifth have the body length and the number of comments of the second.
GwInputs == <<
  [title |-> <<"e","t","a"," ","a"," ","1">>, body |-> <<"x">>,
   comments |-> <<Comment("dev", "", <<"y">>, 1, "u1")>>,
   assigneeLogins |-> {"dev"}],
  [title |-> <<"a">>, body |-> <<"y">>,
   comments |-> <<Comment("dev", "", <<"y">>, 1, "u1")>>,
   assigneeLogins |-> {"dev"}],
  [title |-> <<"a">>, body |-> <<" ">>,
   comments |-> <<Comment("guest", "", <<"y">>, 1, "u2")>>,
   assigneeLogins |-> {"dev"}],
  [title |-> <<"a">>, body |-> <<>>, comments |-> <<>>,
   assigneeLogins |-> {"dev"}],
  [title |-> <<"a">>, body |-> <<"\n">>,
   comments |-> <<Comment("dev", "", <<" ">>, 1, "u1")>>,
   assigneeLogins |-> {"dev"}] >>

\* what the inference service can answer to the prompt of an operation:
\* it throws, or returns a text
Throws == [ok |-> FALSE, content |-> Null]
Returns(content) == [ok |-> TRUE, content |-> content]

TimelineResponses == {
  Throws,
  Returns(Str(<<"N","o","n","e">>)),
  Returns(Str(<<" ","Q","2">>)) }

EtaResponses == {
  Throws,
  Returns(Str(<<"Q","2">>)),
  Returns(JsonText(JsonObj(<<"Q","2">>, <<"y">>, <<>>, <<>>, <<>>), "json")),
  Returns(JsonText(JsonObj(<<>>, <<>>, <<>>, <<>>, <<>>), "none")) }

AnalysisResponses == {
  Throws,
  Returns(Str(<<"Q","2">>)),
  Returns(JsonText(JsonObj(<<>>, <<>>, <<"s">>, <<"n">>, <<"k">>), "none")),
  Returns(JsonText(JsonObj(<<>>, <<>>, <<>>, <<>>, <<>>), "none")) }

GwResponses == TimelineResponses \cup EtaResponses \cup AnalysisResponses

ResponsesFor(op) ==
  CASE op = "timeline" -> TimelineResponses
    [] op = "eta" -> EtaResponses
    [] op = "analysis" -> AnalysisResponses

\* the callers; a caller makes one call at a time
Callers == 1..NumCallers

\* the operation and the input (index in GwInputs) of a call
GwCalls == {<<"timeline", 1>>, <<"eta", 2>>, <<"analysis", 2>>}

GwBegin(op, inp) ==
  CASE op = "timeline" ->
         extractAvailabilityDateWithAI_begin(aiCache, inp.body, inp.title)
    [] op = "eta" ->
         extractEtaFromComments_begin(aiCache, inp.comments, inp.assigneeLogins,
                                      inp.title)
    [] op = "analysis" ->
         analyzeIssueWithAI_begin(aiCache, inp.title, inp.body, inp.comments)

GwEnd(op, inp, response) ==
  CASE op = "timeline" -> extractAvailabilityDateWithAI_end(response)
    [] op = "eta" ->
         extractEtaFromComments_end(inp.comments, inp.assigneeLogins, response)
    [] op = "analysis" -> analyzeIssueWithAI_end(response)

\* number of upserts of a key so far
Writes(w, k) == IF k \in DOMAIN w THEN w[k] ELSE 0

\* a caller: pc is "idle", "inflight" (waiting for the inference service)
\* or "done"; the other fields record what the call saw and did;
\* resp holds the answer of the inference service once it has arrived
IdleCall ==
  [pc |-> "idle", op |-> "none", inp |-> 0, kind |-> "none", key |-> <<>>,
   ret |-> Null, ext |-> 0, beganAt |-> 0, seen |-> NoRow,
   sawWrites |-> 0, endWrites |-> 0, wrote |-> FALSE, failedOut |-> FALSE,
   resp |-> <<>>]

GwInit ==
  /\ now = 0
  /\ ticks = 0
  /\ aiCache = <<>>
  /\ aiWrites = <<>>
  /\ call = [c \in Callers |-> IdleCall]
  /\ ncalls = 0
  /\ githubCache = NoRow
  /\ aksIssuesCache = NoRow
  /\ failedExtractionQueue = <<>>
  /\ currentProgress = NoProgress
  /\ upstream = [roadmap |-> <<>>, issues |-> <<>>]
  /\ req = <<>>
  /\ nreqs = 0
  /\ progressClients = {}
  /\ sockets = [c \in Clients |-> NewSocket]
  /\ published = 0
  /\ worker = IdleWorker
  /\ fnArgs = <<>>
  /\ fnResult = <<>>

\* a caller invokes a gateway operation: the code up to the external call
CallStart(c, op, i) ==
  /\ call[c].pc \in {"idle", "done"}
  /\ ncalls < MaxCalls
  /\ LET b == GwBegin(op, GwInputs[i])
     IN  call' = [call EXCEPT ![c] =
           [pc |-> IF b.kind = "call" THEN "inflight" ELSE "done",
            op |-> op, inp |-> i, kind |-> b.kind, key |-> b.key,
            ret |-> b.ret, ext |-> IF b.kind = "call" THEN 1 ELSE 0,
            beganAt |-> now,
            seen |-> IF b.kind = "skip" THEN NoRow ELSE loadAICache(aiCache, b.key),
            sawWrites |-> Writes(aiWrites, b.key),
            endWrites |-> Writes(aiWrites, b.key),
            wrote |-> FALSE, failedOut |-> b.kind = "cooldown",
            resp |-> <<>>]]
  /\ ncalls' = ncalls + 1
  /\ UNCHANGED <<clockVars, aiVars, snapshotVars, refreshVars, progressVars,
                 workerVars, fnVars>>

\* the inference service answers (or the call throws): the rest of the
\* operation, including its saveAICache
CallReturn(c, response) ==
  /\ call[c].pc = "inflight"
  /\ response \in ResponsesFor(call[c].op)
  /\ LET e == GwEnd(call[c].op, GwInputs[call[c].inp], response)
         k == call[c].key
     IN  /\ aiCache' = saveAICache(aiCache, k, e.result, e.failed)
         /\ aiWrites' = [x \in DOMAIN aiWrites \cup {k} |->
                           IF x = k THEN Writes(aiWrites, k) + 1 ELSE aiWrites[x]]
         /\ call' = [call EXCEPT ![c].pc = "done", ![c].ret = e.ret,
                                 ![c].wrote = TRUE, ![c].failedOut = e.failed,
                                 ![c].endWrites = Writes(aiWrites, k) + 1,
                                 ![c].resp = <<response>>]
  /\ UNCHANGED <<clockVars, ncalls, snapshotVars, refreshVars, progressVars,
                 workerVars, fnVars>>

\* the clock advances.  The instants at which the model looks at the
\* clock are 0, 1min-1, 1min, 24h, 24h+1min-1, ...: for a row written
\* at 0 they are ages on both sides of the cooldown and of the TTL.
TimeSteps == <<oneMinute - 1, 1, CACHE_DURATION - oneMinute>>

Advance ==
  /\ ticks < MaxTicks
  /\ now' = now + TimeSteps[(ticks % Len(TimeSteps)) + 1]
  /\ ticks' = ticks + 1
  /\ UNCHANGED <<aiVars, callVars, snapshotVars, refreshVars, progressVars,
                 workerVars, fnVars>>

GwNext ==
  \/ \E c \in Callers, oi \in GwCalls : CallStart(c, oi[1], oi[2])
  \/ \E c \in Callers, response \in GwResponses : CallReturn(c, response)
  \/ Advance

GwSpec == GwInit /\ [][GwNext]_vars

(***************************************************************************)
(* Properties of the inference gateway (GwSpec)                            *)
(***************************************************************************)
Started(c) == call[c].pc # "idle"
Done(c) == call[c].pc = "done"
\* the call computed a key and looked it up
LookedUp(c) == Started(c) /\ call[c].kind # "skip"
\* age of the row the call found, at the time of the lookup
SeenAge(c) == call[c].beganAt - call[c].seen.timestamp
SameInput(c1, c2) == call[c1].op = call[c2].op /\ call[c1].inp = call[c2].inp
Distance(a, b) == IF a < b THEN b - a ELSE a - b

\* C1 as stated: any two calls with identical input made within 24h of
\* each other issue at most one external inference call in total and
\* return the same output, whatever the outcome of the first and however
\* the two calls interleave.
C1_AsStated ==
  \A c1, c2 \in Callers :
    (c1 # c2 /\ Done(c1) /\ Done(c2) /\ SameInput(c1, c2)
       /\ Distance(call[c1].beganAt, call[c2].beganAt) < CACHE_DURATION)
    => /\ call[c1].ext + call[c2].ext <= 1
       /\ call[c2].ret = call[c1].ret

\* the first call left a success row for the key (it wrote it or hit it),
\* and the second call looked the key up while that row was still the
\* latest write and younger than 24h
HitsRowLeftBy(c1, c2) ==
  /\ c1 # c2 /\ Done(c1) /\ Done(c2) /\ SameInput(c1, c2)
  /\ LookedUp(c1) /\ call[c1].kind \in {"call", "hit"} /\ ~call[c1].failedOut
  /\ call[c2].sawWrites = call[c1].endWrites
  /\ call[c2].seen # NoRow
  /\ SeenAge(c2) < CACHE_DURATION

\* C1 (amended): when a call has returned leaving a success row for its
\* key, a call with identical input that starts while that row is still
\* in place and younger than 24h issues no external inference call and
\* returns the same output; the two calls issue at most one external call.
C1_CacheIdempotence ==
  \A c1, c2 \in Callers :
    HitsRowLeftBy(c1, c2)
    => /\ call[c2].ext = 0
       /\ call[c2].ret = call[c1].ret
       /\ call[c1].ext + call[c2].ext <= 1

\* a call that got a value from the inference service, and a later call
\* with the same input, more than a minute later, served from its row
C1_Witness ==
  \E c1, c2 \in Callers :
    /\ HitsRowLeftBy(c1, c2)
    /\ call[c1].kind = "call" /\ ~IsNull(call[c1].ret)
    /\ call[c2].kind = "hit"
    /\ SeenAge(c2) >= oneMinute

\* the stored result as the value an operation hands out: the text for
\* the timeline, the object the stored JSON text denotes for ETA and
\* analysis
StoredValue(op, result) ==
  IF op # "timeline" /\ result.t = "jsontext" THEN result.v ELSE result

\* C2 as stated: a call that finds a row with failed=false younger than
\* 24h returns the stored result (null if it is null), issues no external
\* inference call and writes no row.
C2_SuccessCacheHit ==
  \A c \in Callers :
    (LookedUp(c) /\ call[c].seen # NoRow /\ ~call[c].seen.failed
       /\ SeenAge(c) < CACHE_DURATION)
    => /\ Done(c) /\ call[c].kind = "hit"
       /\ call[c].ext = 0
       /\ ~call[c].wrote
       /\ call[c].ret = StoredValue(call[c].op, call[c].seen.result)

Sentinel(op) == IF op = "timeline" THEN FailSentinel ELSE Null

\* C3: a call that finds a row with failed=true (a) younger than 60s
\* returns the failure sentinel of its operation without an external call
\* and without writing the row, (b) aged 60s or more (also beyond 24h)
\* issues a new external inference call.
C3_FailureCooldown ==
  \A c \in Callers :
    (LookedUp(c) /\ call[c].seen # NoRow /\ call[c].seen.failed)
    => /\ SeenAge(c) < oneMinute
            => /\ Done(c) /\ call[c].kind = "cooldown"
               /\ call[c].ret = Sentinel(call[c].op)
               /\ call[c].ext = 0
               /\ ~call[c].wrote
       /\ SeenAge(c) >= oneMinute => call[c].ext = 1

\* one call held back by a failure of less than a minute ago, another
\* one calling again when the failed row is 24h old
C3_Witness ==
  \E c1, c2 \in Callers :
    /\ LookedUp(c1) /\ call[c1].seen # NoRow /\ call[c1].seen.failed
    /\ SeenAge(c1) < oneMinute /\ call[c1].kind = "cooldown"
    /\ LookedUp(c2) /\ call[c2].seen # NoRow /\ call[c2].seen.failed
    /\ SeenAge(c2) >= CACHE_DURATION /\ call[c2].ext = 1

(***************************************************************************)
(* Collection snapshots                                                    *)
(***************************************************************************)
\* new Date().toISOString()
toISOString(t) == [t |-> "iso", ms |-> t]

\* the row written by saveGitHubCache(data) / saveAKSIssuesCache(data)
saveGitHubCache(data) ==
  [t |-> "row", data |-> JSONstringify(data), timestamp |-> now,
   lastUpdated |-> toISOString(now)]

saveAKSIssuesCache(data) ==
  [t |-> "row", data |-> JSONstringify(data), timestamp |-> now,
   lastUpdated |-> toISOString(now)]

\* a row that is exactly GITHUB_CACHE_DURATION old still counts as fresh
loadGitHubCache_inclusive(row) ==
  IF row # NoRow /\ now - row.timestamp <= GITHUB_CACHE_DURATION
    THEN [t |-> "cache", data |-> JSONparse(row.data),
          timestamp |-> row.timestamp, lastUpdated |-> row.lastUpdated]
    ELSE NoRow

\* loadGitHubCache(): null, or the parsed row
loadGitHubCache(row) ==
  IF row # NoRow /\ now - row.timestamp < GITHUB_CACHE_DURATION
    THEN [t |-> "cache", data |-> JSONparse(row.data),
          timestamp |-> row.timestamp, lastUpdated |-> row.lastUpdated]
    ELSE NoRow

loadAKSIssuesCache(row) ==
  IF row # NoRow /\ now - row.timestamp < GITHUB_CACHE_DURATION
    THEN [t |-> "cache", data |-> JSONparse(row.data),
          timestamp |-> row.timestamp, lastUpdated |-> row.lastUpdated]
    ELSE NoRow

(***************************************************************************)
(* Graph service data.  A node of the primary list (a project item or an   *)
(* issue): hasContent is FALSE when item.content is null, title is <<>>    *)
(* when the content has no title, comments is the inline first page of     *)
(* comments and commentPages the pages that follow it.  The fields that    *)
(* the handlers only copy (url, dates, labels) are left out.               *)
(***************************************************************************)
Node(id, hasContent, title, body, status, assignees, comments, commentPages) ==
  [id |-> id, hasContent |-> hasContent, title |-> title, body |-> body,
   status |-> status, assignees |-> assignees, comments |-> comments,
   commentPages |-> commentPages]

MAX_PAGES_ROADMAP == 50
MAX_PAGES_ISSUES == 20
CONCURRENCY_LIMIT_ROADMAP == 8
CONCURRENCY_LIMIT_ISSUES == 5

MAX_PAGES(coll) == IF coll = "roadmap" THEN MAX_PAGES_ROADMAP ELSE MAX_PAGES_ISSUES
CONCURRENCY_LIMIT(coll) ==
  IF coll = "roadmap" THEN CONCURRENCY_LIMIT_ROADMAP ELSE CONCURRENCY_LIMIT_ISSUES

(***************************************************************************)
(* The shared state a step of a handler works on                           *)
(***************************************************************************)
\* a const of the code: the value v is computed once and F applied to it
Const(v, F(_)) == CHOOSE r \in {F(x) : x \in {v}} : TRUE

\* log is history: the events published and the snapshot writes of the
\* step so far, in the order of the statements that made them
World ==
  [cache |-> aiCache, writes |-> aiWrites, queue |-> failedExtractionQueue,
   progress |-> currentProgress, github |-> githubCache,
   aks |-> aksIssuesCache, clients |-> progressClients, sockets |-> sockets,
   published |-> published, log |-> <<>>]

\* client.write(data) throws
writeThrows(socket) == socket.st = "broken"

\* the forEach of sendProgress, were a failed delivery not followed by
\* progressClients.delete
deliver_keep(clients, socks, ev) ==
  [clients |-> clients,
   sockets |-> [c \in DOMAIN socks |->
                  IF c \in clients /\ ~writeThrows(socks[c])
                    THEN [socks[c] EXCEPT !.received = @ + 1, !.last = ev]
                    ELSE socks[c]]]

\* progressClients.forEach(client => { try { client.write } catch
\* { progressClients.delete(client) } })
deliver(clients, socks, ev) ==
  [clients |-> {c \in clients : ~writeThrows(socks[c])},
   sockets |-> [c \in DOMAIN socks |->
                  IF c \in clients /\ ~writeThrows(socks[c])
                    THEN [socks[c] EXCEPT !.received = @ + 1, !.last = ev]
                    ELSE socks[c]]]

\* sendProgress(step, current, total); the step text is kept as its
\* fixed part
sendProgress(w, step, current, total) ==
  Const(w, LAMBDA x :
    Const(deliver(x.clients, x.sockets,
                  [step |-> step, current |-> current, total |-> total]),
          LAMBDA d :
            [x EXCEPT !.progress = [step |-> step, current |-> current,
                                    total |-> total],
                      !.clients = d.clients, !.sockets = d.sockets,
                      !.published = @ + 1, !.log = Append(@, step)]))

\* saveAICache as a gateway operation ends
saveEnd(w, key, e) ==
  [w EXCEPT !.cache = saveAICache(w.cache, key, e.result, e.failed),
            !.writes = [x \in DOMAIN w.writes \cup {key} |->
                          IF x = key THEN Writes(w.writes, key) + 1
                          ELSE w.writes[x]]]

\* addToRetryQueue, were a record that waits in the queue not queued again
addToRetryQueue_once(w, title, body) ==
  IF \E k \in DOMAIN w.queue : w.queue[k] = [title |-> title, body |-> body]
    THEN w
    ELSE [w EXCEPT !.queue = Append(w.queue, [title |-> title, body |-> body])]

\* failedExtractionQueue.push({title, body}) (index.ts 1467-1469)
addToRetryQueue(w, title, body) ==
  [w EXCEPT !.queue = Append(w.queue, [title |-> title, body |-> body])]

(***************************************************************************)
(* Enrichment of one record.  An item of the running batch:                *)
(*   st  "tl" | "eta" | "an"  waiting for the inference service            *)
(*       "cm"      waiting for a page of comments (fetchAllComments)       *)
(*       "cmwait"  in the 100ms pause of fetchAllComments                  *)
(*       "done"    the promise of the item has resolved                    *)
(* The field event is history: the progress event sent for the item.       *)
(***************************************************************************)
NewItem ==
  [st |-> "start", key |-> <<>>, allComments |-> <<>>, cmNext |-> 1,
   extractedDate |-> Null, result |-> Null, event |-> NoProgress]

Step(w, it) == [w |-> w, it |-> it]

\* the comments with an author, in the order they were fetched
sortedCommentsOf_unsorted(allComments) ==
  SelectSeqBy(allComments, {c \in Range(allComments) : c.author # ""})

\* sortedComments and lastComment (index.ts 1360-1370, 1841-1851)
sortedCommentsOf(allComments) ==
  sortNewestFirst(SelectSeqBy(allComments,
                              {c \in Range(allComments) : c.author # ""}))

lastCommentOf(allComments) ==
  LET sortedComments == sortedCommentsOf(allComments)
  IN  IF Len(sortedComments) > 0
        THEN [t |-> "lastComment", createdAt |-> sortedComments[1].createdAt,
              login |-> sortedComments[1].author, name |-> sortedComments[1].name]
        ELSE Null

needsResponseOf(lastComment, allAssigneeLogins) ==
  IF ~IsNull(lastComment) THEN lastComment.login \notin allAssigneeLogins
  ELSE FALSE

\* the roadmapItem object (index.ts 1359-1399)
roadmapFinish(w, n, it, extractedEta) ==
  LET lastComment == lastCommentOf(it.allComments)
      needsResponse == needsResponseOf(lastComment, Range(n.assignees))
  IN  Step(w, [it EXCEPT !.st = "done", !.key = <<>>,
         !.result = [t |-> "roadmapItem", id |-> n.id, title |-> n.title,
                     body |-> n.body,
                     status |-> IF n.status # "" THEN n.status ELSE "Unknown",
                     assignees |-> n.assignees,
                     extractedDate |-> it.extractedDate,
                     extractedEta |-> extractedEta,
                     lastComment |-> lastComment,
                     needsResponse |-> needsResponse]])

\* extractEtaFromComments is called (index.ts 1355-1357)
roadmapEta(w, n, it) ==
  Const(extractEtaFromComments_begin(w.cache, it.allComments,
                                     Range(n.assignees), n.title),
        LAMBDA b :
          IF b.kind = "call"
            THEN Step(w, [it EXCEPT !.st = "eta", !.key = b.key])
            ELSE roadmapFinish(w, n, it, b.ret))

\* the comments are completed (index.ts 1348-1353)
roadmapComments(w, n, it) ==
  IF Len(n.commentPages) > 0
    THEN Step(w, [it EXCEPT !.st = "cm", !.key = <<>>,
                            !.allComments = n.comments, !.cmNext = 1])
    ELSE roadmapEta(w, n, [it EXCEPT !.allComments = n.comments])

\* the timeline is known (index.ts 1343-1346)
roadmapAfterTimeline(w, n, it) ==
  Const(IF it.extractedDate = FailSentinel
          THEN addToRetryQueue(w, n.title, n.body)
          ELSE w,
        LAMBDA w1 : roadmapComments(w1, n, it))

\* the callback of batch.map up to its first await (index.ts 1322-1341)
roadmapStart(w, n, globalIndex, total) ==
  LET w1 == sendProgress(w, "Processing AI extraction", globalIndex + 1, total)
      item == [NewItem EXCEPT !.event = w1.progress]
  IN  IF n.title = <<>>
        THEN Step(w1, [item EXCEPT !.st = "done"])
        ELSE
          Const(extractAvailabilityDateWithAI_begin(w1.cache, n.body, n.title),
                LAMBDA b :
                  IF b.kind = "call"
                    THEN Step(w1, [item EXCEPT !.st = "tl", !.key = b.key])
                    ELSE roadmapAfterTimeline(w1, n,
                           [item EXCEPT !.extractedDate = b.ret]))

\* the processed issue (index.ts 1861-1867)
issueFinish(w, n, it, aiSummary) ==
  LET lastComment == lastCommentOf(it.allComments)
      needsResponse == needsResponseOf(lastComment, Range(n.assignees))
  IN  Step(w, [it EXCEPT !.st = "done", !.key = <<>>,
         !.result = [t |-> "aksIssue", id |-> n.id, title |-> n.title,
                     body |-> n.body, assignees |-> n.assignees,
                     lastComment |-> lastComment,
                     needsResponse |-> needsResponse,
                     aiSummary |-> aiSummary]])

\* recentComments = sortedComments.slice(0, 10)
recentCommentsOf(allComments) ==
  LET sortedComments == sortedCommentsOf(allComments)
  IN  SubSeq(sortedComments, 1,
             IF Len(sortedComments) < 10 THEN Len(sortedComments) ELSE 10)

\* analyzeIssueWithAI is called (index.ts 1857-1859)
issueAnalysis(w, n, it) ==
  Const(analyzeIssueWithAI_begin(w.cache, n.title, n.body,
                                 recentCommentsOf(it.allComments)),
        LAMBDA b :
          IF b.kind = "call"
            THEN Step(w, [it EXCEPT !.st = "an", !.key = b.key])
            ELSE issueFinish(w, n, it, b.ret))

\* Math.round(35 + ((globalIndex / totalIssues) * 60))
progressPercent(globalIndex, totalIssues) ==
  (2 * (35 * totalIssues + 60 * globalIndex) + totalIssues) \div (2 * totalIssues)

\* the callback of batch.map up to its first await (index.ts 1824-1838)
issueStart(w, n, globalIndex, total) ==
  LET w1 == sendProgress(w, "Analyzing issue",
                         progressPercent(globalIndex, total), 100)
      item == [NewItem EXCEPT !.event = w1.progress]
  IN  IF Len(n.commentPages) > 0
        THEN Step(w1, [item EXCEPT !.st = "cm", !.allComments = n.comments])
        ELSE issueAnalysis(w1, n, [item EXCEPT !.allComments = n.comments])

\* the callbacks, were they all to report the first index
itemStart_unindexed(coll, w, n, globalIndex, total) ==
  IF coll = "roadmap" THEN roadmapStart(w, n, 0, total)
  ELSE issueStart(w, n, 0, total)

itemStart(coll, w, n, globalIndex, total) ==
  IF coll = "roadmap" THEN roadmapStart(w, n, globalIndex, total)
  ELSE issueStart(w, n, globalIndex, total)

\* the comments are complete: the code after await fetchAllComments
afterComments(coll, w, n, it) ==
  IF coll = "roadmap" THEN roadmapEta(w, n, it) ELSE issueAnalysis(w, n, it)

\* the inference service has answered the call the item waits for
itemInferenceReturn(coll, w, n, it, response) ==
  CASE it.st = "tl" ->
         Const(extractAvailabilityDateWithAI_end(response), LAMBDA e :
           Const(saveEnd(w, it.key, e), LAMBDA w1 :
             roadmapAfterTimeline(w1, n, [it EXCEPT !.extractedDate = e.ret])))
    [] it.st = "eta" ->
         Const(extractEtaFromComments_end(it.allComments, Range(n.assignees),
                                          response), LAMBDA e :
           Const(saveEnd(w, it.key, e), LAMBDA w1 :
             roadmapFinish(w1, n, it, e.ret)))
    [] it.st = "an" ->
         Const(analyzeIssueWithAI_end(response), LAMBDA e :
           Const(saveEnd(w, it.key, e), LAMBDA w1 :
             issueFinish(w1, n, it, e.ret)))

\* fetchAllComments, were the catch block to return initialComments
itemCommentsReturn_reset(coll, w, n, it, ok) ==
  IF ok
    THEN Step(w, [it EXCEPT !.st = "cmwait",
                    !.allComments = it.allComments \o n.commentPages[it.cmNext],
                    !.cmNext = it.cmNext + 1])
    ELSE afterComments(coll, w, n, [it EXCEPT !.allComments = n.comments])

\* fetchAllComments: the graph service has answered a page request
\* (index.ts 969-983); on an error the loop is left with what was fetched
itemCommentsReturn(coll, w, n, it, ok) ==
  IF ok
    THEN Step(w, [it EXCEPT !.st = "cmwait",
                    !.allComments = it.allComments \o n.commentPages[it.cmNext],
                    !.cmNext = it.cmNext + 1])
    ELSE afterComments(coll, w, n, it)

\* fetchAllComments: the 100ms pause is over; hasMore is the hasNextPage
\* of the page just fetched
itemCommentsTimer(coll, w, n, it) ==
  IF it.cmNext <= Len(n.commentPages)
    THEN Step(w, [it EXCEPT !.st = "cm"])
    ELSE afterComments(coll, w, n, it)

(***************************************************************************)
(* The handlers of GET /api/roadmap and GET /api/aks-issues.  A request:   *)
(*   pc  "idle"       no request in this slot                              *)
(*       "ids"        waiting for the graph service in getRoadmapIssueIds  *)
(*       "page"       waiting for a page of the primary list               *)
(*       "pagewait"   in the 200ms pause of fetchAKSOpenIssues             *)
(*       "batch"      waiting in Promise.all(batchPromises)                *)
(*       "batchwait"  in the 1s pause between two batches of issues        *)
(*       "done"       the response has been sent                           *)
(* The fields seenRow, startedAt, pipeline, pageFailed, enriched and wrote *)
(* are history: the row the request found, whether it went past the cache  *)
(* check, whether a page of its primary list failed, whether it handed a   *)
(* list to enrichment and the snapshot row it wrote.                       *)
(***************************************************************************)
Colls == {"roadmap", "issues"}

\* what the graph service does with a request: it answers, it throws, or
\* it answers without the data asked for
GraphResponses == {"ok", "throw", "nodata"}

IdleReq ==
  [pc |-> "idle", coll |-> "none", force |-> FALSE, startedAt |-> 0,
   seenRow |-> NoRow, pipeline |-> FALSE, pageCount |-> 0,
   hasNextPage |-> TRUE, allItems |-> <<>>, roadmapIssueIds |-> {},
   enriched |-> FALSE, given |-> <<>>, i |-> 0, items |-> <<>>,
   out |-> <<>>, resp |-> Null, pageFailed |-> FALSE, wrote |-> NoRow,
   query |-> "none", order |-> <<>>]

\* res.json(body) and res.status(500).json({error})
resJson(body) == [t |-> "json", status |-> 200, body |-> body]
resError == [t |-> "error", status |-> 500]

Run(w, rq) == [w |-> w, rq |-> rq]

Min(a, b) == IF a < b THEN a ELSE b

\* array.slice(from, to) with 0-based indices
slice(s, from, to) == SubSeq(s, from + 1, Min(to, Len(s)))

RECURSIVE flatten(_)
flatten(pages) ==
  IF pages = <<>> THEN <<>> ELSE Head(pages) \o flatten(Tail(pages))

\* the end index of the batch that starts at i, were all remaining
\* items started at once
batchEnd_all(i, limit) == i + limit + limit

\* validItems.slice(i, i + CONCURRENCY_LIMIT)
batchEnd(i, limit) == i + limit

\* batch.map(async ...): the callbacks run in slot order, each up to its
\* first await
RECURSIVE batchMap(_, _, _, _, _)
batchMap(coll, w, batch, globalIndex, total) ==
  IF batch = <<>> THEN [w |-> w, items |-> <<>>]
  ELSE Const(itemStart(coll, w, Head(batch), globalIndex, total), LAMBDA s :
         Const(batchMap(coll, s.w, Tail(batch), globalIndex + 1, total),
               LAMBDA rest :
                 [w |-> rest.w, items |-> <<s.it>> \o rest.items]))

\* the results in the order in which a reversed Promise.all would
\* give them
batchResults_reversed(items) ==
  [k \in 1..Len(items) |-> items[Len(items) + 1 - k].result]

\* await Promise.all(batchPromises): the results in slot order
batchResults(items) == [k \in 1..Len(items) |-> items[k].result]

\* batchResults.forEach(item => { if (item) roadmapItems.push(item) }) and
\* processedIssues.push(...batchResults)
pushResults(coll, out, results) ==
  IF coll = "roadmap"
    THEN out \o SelectSeqBy(results, {x \in Range(results) : ~IsNull(x)})
    ELSE out \o results

\* Promise.all(batchPromises) that never settles
allDone_never(items) == FALSE

\* Promise.race(batchPromises) in the place of Promise.all
allDone_race(items) == \E k \in 1..Len(items) : items[k].st = "done"

\* Promise.all(batchPromises) has resolved
allDone(items) == \A k \in 1..Len(items) : items[k].st = "done"

\* the end of the handler, were the snapshot not saved
finish_unsaved(w, rq) ==
  LET n == Len(rq.out)
      w1 == IF rq.coll = "roadmap"
              THEN sendProgress(w, "Saving to cache", n, n)
              ELSE sendProgress(w, "Saving to cache", 95, 100)
      w3 == IF rq.coll = "roadmap"
              THEN sendProgress(w1, "Complete", n, n)
              ELSE sendProgress(w1, "Complete", 100, 100)
  IN  Run(w3, [rq EXCEPT !.pc = "done", !.items = <<>>, !.allItems = <<>>,
                         !.roadmapIssueIds = {},
                         !.resp = resJson(rq.out)])

\* what the end of the handler did after its log stood at `from', the
\* answer last
finishOrder(w, from) ==
  SubSeq(w.log, from + 1, Len(w.log)) \o <<"res.json">>

\* the end of the handler, were 'Complete' published before the snapshot
\* is saved
finish_early(w, rq) ==
  LET n == Len(rq.out)
      w1 == IF rq.coll = "roadmap"
              THEN sendProgress(w, "Saving to cache", n, n)
              ELSE sendProgress(w, "Saving to cache", 95, 100)
      w2 == IF rq.coll = "roadmap"
              THEN sendProgress(w1, "Complete", n, n)
              ELSE sendProgress(w1, "Complete", 100, 100)
      w3 == IF rq.coll = "roadmap"
              THEN [w2 EXCEPT !.github = saveGitHubCache(rq.out),
                              !.log = Append(@, "save")]
              ELSE [w2 EXCEPT !.aks = saveAKSIssuesCache(rq.out),
                              !.log = Append(@, "save")]
  IN  Run(w3, [rq EXCEPT !.pc = "done", !.items = <<>>, !.allItems = <<>>,
                         !.roadmapIssueIds = {},
                         !.wrote = IF rq.coll = "roadmap" THEN w3.github
                                   ELSE w3.aks,
                         !.order = finishOrder(w3, Len(w.log)),
                         !.resp = resJson(rq.out)])

\* the end of the handler: the snapshot is saved and the response sent
\* (index.ts 1413-1421, 1883-1892)
finish(w, rq) ==
  LET n == Len(rq.out)
      w1 == IF rq.coll = "roadmap"
              THEN sendProgress(w, "Saving to cache", n, n)
              ELSE sendProgress(w, "Saving to cache", 95, 100)
      w2 == IF rq.coll = "roadmap"
              THEN [w1 EXCEPT !.github = saveGitHubCache(rq.out),
                              !.log = Append(@, "save")]
              ELSE [w1 EXCEPT !.aks = saveAKSIssuesCache(rq.out),
                              !.log = Append(@, "save")]
      w3 == IF rq.coll = "roadmap"
              THEN sendProgress(w2, "Complete", n, n)
              ELSE sendProgress(w2, "Complete", 100, 100)
  IN  Run(w3, [rq EXCEPT !.pc = "done", !.items = <<>>, !.allItems = <<>>,
                         !.roadmapIssueIds = {},
                         !.wrote = IF rq.coll = "roadmap" THEN w2.github
                                   ELSE w2.aks,
                         !.order = finishOrder(w3, Len(w.log)),
                         !.resp = resJson(rq.out)])

\* the batch loop (index.ts 1320-1411, 1822-1881): runBatches is the loop
\* from its test on, afterItems the code after Promise.all
RECURSIVE runBatches(_, _)
RECURSIVE afterItems(_, _)
runBatches(w, rq) ==
  IF rq.i >= Len(rq.given) THEN finish(w, rq)
  ELSE Const(slice(rq.given, rq.i, batchEnd(rq.i, CONCURRENCY_LIMIT(rq.coll))),
             LAMBDA batch :
         Const(batchMap(rq.coll, w, batch, rq.i, Len(rq.given)), LAMBDA m :
           Const([rq EXCEPT !.pc = "batch", !.items = m.items], LAMBDA rq1 :
             afterItems(m.w, rq1))))

afterItems(w, rq) ==
  IF ~allDone(rq.items) THEN Run(w, rq)
  ELSE Const([rq EXCEPT
                !.out = pushResults(rq.coll, rq.out, batchResults(rq.items)),
                !.items = <<>>],
             LAMBDA rq1 :
         IF rq.coll = "issues"
            /\ rq.i + CONCURRENCY_LIMIT(rq.coll) < Len(rq.given)
           THEN Run(w, [rq1 EXCEPT !.pc = "batchwait"])
           ELSE Const([rq1 EXCEPT !.i = rq.i + CONCURRENCY_LIMIT(rq.coll)],
                      LAMBDA rq2 : runBatches(w, rq2)))

\* the primary list is there, were the refresh given up when nobody
\* listens to its progress
enrich_observed(w, rq) ==
  IF w.clients = {}
    THEN Run(w, [rq EXCEPT !.pc = "done", !.allItems = <<>>, !.resp = resError])
    ELSE
      IF rq.coll = "roadmap"
        THEN LET w1 == sendProgress(w, "Processing items for AI extraction", 0,
                                    Len(rq.allItems))
                 validItems == SelectSeqBy(rq.allItems,
                                 {n \in Range(rq.allItems) : n.hasContent})
             IN  Const([rq EXCEPT !.given = validItems, !.i = 0, !.out = <<>>,
                                  !.enriched = TRUE],
                       LAMBDA rq1 : runBatches(w1, rq1))
        ELSE LET w1 == sendProgress(w, "Starting AI analysis", 35, 100)
                 filteredIssues == SelectSeqBy(rq.allItems,
                                     {n \in Range(rq.allItems) :
                                        n.id \notin rq.roadmapIssueIds})
             IN  Const([rq EXCEPT !.given = filteredIssues, !.i = 0, !.out = <<>>,
                                  !.enriched = TRUE],
                       LAMBDA rq1 : runBatches(w1, rq1))

\* the primary list is there: filter and start the batches
\* (index.ts 1309-1318, 1808-1820)
enrich(w, rq) ==
  IF rq.coll = "roadmap"
    THEN LET w1 == sendProgress(w, "Processing items for AI extraction", 0,
                                Len(rq.allItems))
             validItems == SelectSeqBy(rq.allItems,
                             {n \in Range(rq.allItems) : n.hasContent})
         IN  Const([rq EXCEPT !.given = validItems, !.i = 0, !.out = <<>>,
                              !.enriched = TRUE],
                   LAMBDA rq1 : runBatches(w1, rq1))
    ELSE LET w1 == sendProgress(w, "Starting AI analysis", 35, 100)
             filteredIssues == SelectSeqBy(rq.allItems,
                                 {n \in Range(rq.allItems) :
                                    n.id \notin rq.roadmapIssueIds})
         IN  Const([rq EXCEPT !.given = filteredIssues, !.i = 0, !.out = <<>>,
                              !.enriched = TRUE],
                   LAMBDA rq1 : runBatches(w1, rq1))

\* the head of the paging loop without the test of pageCount
nextPage_uncapped(w, rq) ==
  IF rq.hasNextPage
    THEN Run(IF rq.coll = "roadmap"
               THEN sendProgress(w, "Fetching GitHub data (page)",
                                 (rq.pageCount + 1) * 10, 100)
               ELSE w,
             [rq EXCEPT !.pc = "page", !.pageCount = rq.pageCount + 1])
    ELSE enrich(w, rq)

\* the head of the paging loop: another page is asked for, or the loop
\* is left (index.ts 1217-1219, 1638-1640)
nextPage(w, rq) ==
  IF rq.hasNextPage /\ rq.pageCount < MAX_PAGES(rq.coll)
    THEN Run(IF rq.coll = "roadmap"
               THEN sendProgress(w, "Fetching GitHub data (page)",
                                 (rq.pageCount + 1) * 10, 100)
               ELSE w,
             [rq EXCEPT !.pc = "page", !.pageCount = rq.pageCount + 1])
    ELSE enrich(w, rq)

\* the handler up to its first await, were the start of the request
\* announced before the snapshot is looked at
reqStart_announce(w, coll, force) ==
  LET row == IF coll = "roadmap" THEN w.github ELSE w.aks
      cachedData == IF coll = "roadmap" THEN loadGitHubCache(row)
                    ELSE loadAKSIssuesCache(row)
      rq == [IdleReq EXCEPT !.coll = coll, !.force = force,
                            !.startedAt = now, !.seenRow = row]
      w1 == IF coll = "roadmap"
              THEN sendProgress(w, "Fetching GitHub data", 0, 100)
              ELSE sendProgress(w, "Fetching roadmap issue IDs to filter", 0, 100)
  IN  IF ~force /\ cachedData # NoRow
        THEN Run(w1, [rq EXCEPT !.pc = "done", !.resp = resJson(cachedData.data)])
        ELSE IF coll = "roadmap"
          THEN nextPage(w1, [rq EXCEPT !.pipeline = TRUE])
          ELSE Run(w1, [rq EXCEPT !.pipeline = TRUE, !.pc = "ids"])

\* the handler up to its first await, were refresh=true not looked at
reqStart_unforced(w, coll, force) ==
  LET row == IF coll = "roadmap" THEN w.github ELSE w.aks
      cachedData == IF coll = "roadmap" THEN loadGitHubCache(row)
                    ELSE loadAKSIssuesCache(row)
      rq == [IdleReq EXCEPT !.coll = coll, !.force = force,
                            !.startedAt = now, !.seenRow = row]
  IN  IF cachedData # NoRow
        THEN Run(w, [rq EXCEPT !.pc = "done", !.resp = resJson(cachedData.data)])
        ELSE IF coll = "roadmap"
          THEN nextPage(sendProgress(w, "Fetching GitHub data", 0, 100),
                        [rq EXCEPT !.pipeline = TRUE])
          ELSE Run(sendProgress(w, "Fetching roadmap issue IDs to filter", 0, 100),
                   [rq EXCEPT !.pipeline = TRUE, !.pc = "ids"])

\* the handler up to its first await (index.ts 1194-1219, 1784-1801)
reqStart(w, coll, force) ==
  LET row == IF coll = "roadmap" THEN w.github ELSE w.aks
      cachedData == IF coll = "roadmap" THEN loadGitHubCache(row)
                    ELSE loadAKSIssuesCache(row)
      rq == [IdleReq EXCEPT !.coll = coll, !.force = force,
                            !.startedAt = now, !.seenRow = row]
  IN  IF ~force /\ cachedData # NoRow
        THEN Run(w, [rq EXCEPT !.pc = "done", !.resp = resJson(cachedData.data)])
        ELSE IF coll = "roadmap"
          THEN nextPage(sendProgress(w, "Fetching GitHub data", 0, 100),
                        [rq EXCEPT !.pipeline = TRUE])
          ELSE Run(sendProgress(w, "Fetching roadmap issue IDs to filter", 0, 100),
                   [rq EXCEPT !.pipeline = TRUE, !.pc = "ids"])

\* items(first: 100) of getRoadmapIssueIds
IDS_FIRST == 100

\* getRoadmapIssueIds ends (index.ts 1765-1780) and fetchAKSOpenIssues
\* asks for its first page
idsReturn(w, rq, g, pages) ==
  LET roadmapItems == IF g = "ok" THEN slice(flatten(pages), 0, IDS_FIRST)
                      ELSE <<>>
      issueIds == {n.id : n \in {x \in Range(roadmapItems) : x.hasContent}}
  IN  nextPage(sendProgress(w, "Fetching AKS open issues", 10, 100),
               [rq EXCEPT !.roadmapIssueIds = issueIds])

\* the graph service answers a page request of the primary list
\* (index.ts 1295-1306, 1696-1737)
pageReturn(w, rq, g, pages) ==
  IF g = "ok"
    THEN LET rq1 == [rq EXCEPT
                       !.allItems = rq.allItems \o pages[rq.pageCount],
                       !.hasNextPage = rq.pageCount < Len(pages)]
         IN  IF rq.coll = "roadmap" THEN nextPage(w, rq1)
             ELSE Run(w, [rq1 EXCEPT !.pc = "pagewait"])
    ELSE IF rq.coll = "roadmap"
      THEN Run(w, [rq EXCEPT !.pc = "done", !.pageFailed = TRUE,
                             !.allItems = <<>>, !.resp = resError])
      ELSE enrich(sendProgress(w, "Filtering out roadmap issues", 30, 100),
                  [rq EXCEPT !.pageFailed = TRUE])

\* the 200ms pause of fetchAKSOpenIssues is over
pageTimer(w, rq) ==
  IF rq.hasNextPage /\ rq.pageCount < MAX_PAGES(rq.coll)
    THEN nextPage(w, rq)
    ELSE enrich(sendProgress(w, "Filtering out roadmap issues", 30, 100), rq)

(***************************************************************************)
(* The requests as actions                                                 *)
(***************************************************************************)
Reqs == 1..NumReqs

\* the step of a handler has run: its effects on the shared state
Apply(r, res) ==
  /\ aiCache' = res.w.cache
  /\ aiWrites' = res.w.writes
  /\ failedExtractionQueue' = res.w.queue
  /\ currentProgress' = res.w.progress
  /\ githubCache' = res.w.github
  /\ aksIssuesCache' = res.w.aks
  /\ progressClients' = res.w.clients
  /\ sockets' = res.w.sockets
  /\ published' = res.w.published
  /\ req' = [req EXCEPT ![r] = res.rq]

\* a client sends GET /api/roadmap or GET /api/aks-issues, with or
\* without refresh=true
ReqStart(r, coll, force) ==
  /\ req[r].pc = "idle"
  /\ \E res \in {reqStart(World, coll, force)} : Apply(r, res)
  /\ nreqs' = nreqs + 1
  /\ UNCHANGED <<clockVars, callVars, workerVars, fnVars, upstream>>

\* a client sends GET /api/cache-info (index.ts 1172-1191)
\* the type parameter of GET /api/cache-info: none (App.tsx) or aks
\* (AKSIssuesPage.tsx)
CacheInfoTypes == {"none", "aks"}

CacheInfo(r, type) ==
  /\ req[r].pc = "idle"
  /\ LET githubCacheNow == loadGitHubCache(githubCache)
     IN  req' = [req EXCEPT ![r] =
           [IdleReq EXCEPT !.pc = "done", !.coll = "info",
              !.startedAt = now, !.seenRow = githubCache, !.query = type,
              !.resp = IF githubCacheNow # NoRow
                         THEN [t |-> "info",
                               lastUpdated |-> githubCacheNow.lastUpdated,
                               isCached |-> TRUE]
                         ELSE [t |-> "info", lastUpdated |-> Null,
                               isCached |-> FALSE]]]
  /\ nreqs' = nreqs + 1
  /\ UNCHANGED <<clockVars, aiVars, callVars, snapshotVars, progressVars,
                 workerVars, fnVars, failedExtractionQueue, currentProgress,
                 upstream>>

\* getRoadmapIssueIds gets its answer
IdsReturn(r, g) ==
  /\ req[r].pc = "ids"
  /\ \E res \in {idsReturn(World, req[r], g, upstream.roadmap)} : Apply(r, res)
  /\ UNCHANGED <<clockVars, callVars, workerVars, fnVars, upstream, nreqs>>

\* a page request of the primary list gets its answer
PageReturn(r, g) ==
  /\ req[r].pc = "page"
  /\ \E res \in {pageReturn(World, req[r], g, upstream[req[r].coll])} :
       Apply(r, res)
  /\ UNCHANGED <<clockVars, callVars, workerVars, fnVars, upstream, nreqs>>

PageTimer(r) ==
  /\ req[r].pc = "pagewait"
  /\ \E res \in {pageTimer(World, req[r])} : Apply(r, res)
  /\ UNCHANGED <<clockVars, callVars, workerVars, fnVars, upstream, nreqs>>

\* the item in slot j of the running batch has made a step; when it was
\* the last one to finish, the handler goes on
ItemStep(r, j, step) ==
  \E s \in {step} :
    \E res \in {afterItems(s.w, [req[r] EXCEPT !.items[j] = s.it])} :
      Apply(r, res)

nodeOf(rq, j) == rq.given[rq.i + j]

opOf(st) ==
  CASE st = "tl" -> "timeline"
    [] st = "eta" -> "eta"
    [] st = "an" -> "analysis"

\* the inference service answers the call of the item in slot j
ItemInferenceReturn(r, j, response) ==
  /\ req[r].pc = "batch"
  /\ j \in 1..Len(req[r].items)
  /\ req[r].items[j].st \in {"tl", "eta", "an"}
  /\ response \in ResponsesFor(opOf(req[r].items[j].st))
  /\ ItemStep(r, j, itemInferenceReturn(req[r].coll, World, nodeOf(req[r], j),
                                        req[r].items[j], response))
  /\ UNCHANGED <<clockVars, callVars, workerVars, fnVars, upstream, nreqs>>

\* the graph service answers the comment page request of the item in
\* slot j
ItemCommentsReturn(r, j, g) ==
  /\ req[r].pc = "batch"
  /\ j \in 1..Len(req[r].items)
  /\ req[r].items[j].st = "cm"
  /\ ItemStep(r, j, itemCommentsReturn(req[r].coll, World, nodeOf(req[r], j),
                                       req[r].items[j], g = "ok"))
  /\ UNCHANGED <<clockVars, callVars, workerVars, fnVars, upstream, nreqs>>

ItemCommentsTimer(r, j) ==
  /\ req[r].pc = "batch"
  /\ j \in 1..Len(req[r].items)
  /\ req[r].items[j].st = "cmwait"
  /\ ItemStep(r, j, itemCommentsTimer(req[r].coll, World, nodeOf(req[r], j),
                                      req[r].items[j]))
  /\ UNCHANGED <<clockVars, callVars, workerVars, fnVars, upstream, nreqs>>

\* the 1s pause between two batches of issues is over
BatchTimer(r) ==
  /\ req[r].pc = "batchwait"
  /\ \E res \in {runBatches(World,
                    [req[r] EXCEPT
                       !.i = req[r].i + CONCURRENCY_LIMIT(req[r].coll)])} :
       Apply(r, res)
  /\ UNCHANGED <<clockVars, callVars, workerVars, fnVars, upstream, nreqs>>

(***************************************************************************)
(* RefreshSpec: requests on a small project and a small repository, with   *)
(* the clock.  The project has two pages: an item with an issue on the     *)
(* first, an item without content on the second.  The repository has two   *)
(* pages of one issue each; the first issue has a second page of comments, *)
(* the second is the issue of the project.                                 *)
(***************************************************************************)
RefreshData ==
  [roadmap |-> <<
     << Node("i1", TRUE, <<"a">>, <<"y">>, "Planned", <<"dev">>, <<>>, <<>>) >>,
     << Node("p2", FALSE, <<>>, <<>>, "", <<>>, <<>>, <<>>) >> >>,
   issues |-> <<
     << Node("i2", TRUE, <<"b">>, <<"x">>, "", <<"dev">>,
             << Comment("dev", "", <<"y">>, 1, "u1") >>,
             << << Comment("guest", "", <<"z">>, 2, "u2") >> >>) >>,
     << Node("i1", TRUE, <<"a">>, <<"y">>, "", <<"dev">>, <<>>, <<>>) >> >>]

\* the answers of the inference service in the refresh specifications
RefreshResponses == {
  Throws,
  Returns(Str(<<" ","Q","2">>)),
  Returns(JsonText(JsonObj(<<>>, <<>>, <<"s">>, <<"n">>, <<"k">>), "none")) }

RefreshInit ==
  /\ now = 0
  /\ ticks = 0
  /\ aiCache = <<>>
  /\ aiWrites = <<>>
  /\ call = [c \in Callers |-> IdleCall]
  /\ ncalls = 0
  /\ githubCache = NoRow
  /\ aksIssuesCache = NoRow
  /\ failedExtractionQueue = <<>>
  /\ currentProgress = NoProgress
  /\ upstream = RefreshData
  /\ req = [r \in Reqs |-> IdleReq]
  /\ nreqs = 0
  /\ progressClients = {}
  /\ sockets = [c \in Clients |-> NewSocket]
  /\ published = 0
  /\ worker = IdleWorker
  /\ fnArgs = <<>>
  /\ fnResult = <<>>

\* no handler is running.  The refreshes of this specification are short
\* against the steps of the clock: time passes between the requests.
Quiet == \A r \in Reqs : req[r].pc \in {"idle", "done"}

RefreshNext ==
  \/ \E r \in Reqs, coll \in Colls, force \in BOOLEAN : ReqStart(r, coll, force)
  \/ \E r \in Reqs, type \in CacheInfoTypes : CacheInfo(r, type)
  \/ \E r \in Reqs, g \in GraphResponses : IdsReturn(r, g)
  \/ \E r \in Reqs, g \in GraphResponses : PageReturn(r, g)
  \/ \E r \in Reqs : PageTimer(r)
  \/ \E r \in Reqs, j \in 1..CONCURRENCY_LIMIT_ROADMAP,
        response \in RefreshResponses : ItemInferenceReturn(r, j, response)
  \/ \E r \in Reqs, j \in 1..CONCURRENCY_LIMIT_ROADMAP, g \in GraphResponses :
        ItemCommentsReturn(r, j, g)
  \/ \E r \in Reqs, j \in 1..CONCURRENCY_LIMIT_ROADMAP : ItemCommentsTimer(r, j)
  \/ Quiet /\ Advance

RefreshSpec == RefreshInit /\ [][RefreshNext]_vars

(***************************************************************************)
(* BatchSpec: one forced refresh of each collection on data that fills     *)
(* more than one batch.  Either the project is large (eight items with an  *)
(* issue, an item without content, an issue without title and one more     *)
(* issue) and the repository has no open issue, or the repository is large *)
(* (six issues, the first with a second page of comments) and the project  *)
(* has one item.                                                           *)
(***************************************************************************)
LargeProject ==
  [roadmap |-> <<
     [k \in 1..(CONCURRENCY_LIMIT_ROADMAP + 3) |->
        IF k <= CONCURRENCY_LIMIT_ROADMAP
          THEN Node(k, TRUE, <<"a">>, <<"y">>, "Planned", <<"dev">>, <<>>, <<>>)
        ELSE IF k = CONCURRENCY_LIMIT_ROADMAP + 1
          THEN Node(k, FALSE, <<>>, <<>>, "", <<>>, <<>>, <<>>)
        ELSE IF k = CONCURRENCY_LIMIT_ROADMAP + 2
          THEN Node(k, TRUE, <<>>, <<"y">>, "", <<"dev">>, <<>>, <<>>)
        ELSE Node(k, TRUE, <<"b">>, <<"x">>, "", <<"dev">>, <<>>, <<>>)] >>,
   issues |-> << <<>> >>]

LargeRepository ==
  [roadmap |-> <<
     << Node(1, TRUE, <<"a">>, <<"y">>, "Planned", <<"dev">>, <<>>, <<>>) >> >>,
   issues |-> <<
     [k \in 1..(CONCURRENCY_LIMIT_ISSUES + 1) |->
        IF k = 1
          THEN Node(100 + k, TRUE, <<"b">>, <<"x">>, "", <<"dev">>,
                    << Comment("dev", "", <<"y">>, 1, "u1") >>,
                    << << Comment("guest", "", <<"z">>, 2, "u2") >> >>)
          ELSE Node(100 + k, TRUE, <<"b">>, <<"x">>, "", <<"dev">>,
                    <<>>, <<>>)] >>]

BatchInit ==
  /\ now = 0
  /\ ticks = 0
  /\ aiCache = <<>>
  /\ aiWrites = <<>>
  /\ call = [c \in Callers |-> IdleCall]
  /\ ncalls = 0
  /\ githubCache = NoRow
  /\ aksIssuesCache = NoRow
  /\ failedExtractionQueue = <<>>
  /\ currentProgress = NoProgress
  /\ upstream \in {LargeProject, LargeRepository}
  /\ req = [r \in Reqs |-> IdleReq]
  /\ nreqs = 0
  /\ progressClients = {}
  /\ sockets = [c \in Clients |-> NewSocket]
  /\ published = 0
  /\ worker = IdleWorker
  /\ fnArgs = <<>>
  /\ fnResult = <<>>

\* one client asks for each collection, once
BatchNext ==
  \/ ReqStart(1, "roadmap", TRUE)
  \/ ReqStart(2, "issues", TRUE)
  \/ \E r \in Reqs, g \in GraphResponses : IdsReturn(r, g)
  \/ \E r \in Reqs, g \in GraphResponses : PageReturn(r, g)
  \/ \E r \in Reqs : PageTimer(r)
  \/ \E r \in Reqs, j \in 1..CONCURRENCY_LIMIT_ROADMAP,
        response \in RefreshResponses : ItemInferenceReturn(r, j, response)
  \/ \E r \in Reqs, j \in 1..CONCURRENCY_LIMIT_ROADMAP, g \in GraphResponses :
        ItemCommentsReturn(r, j, g)
  \/ \E r \in Reqs, j \in 1..CONCURRENCY_LIMIT_ROADMAP : ItemCommentsTimer(r, j)
  \/ \E r \in Reqs : BatchTimer(r)

BatchSpec == BatchInit /\ [][BatchNext]_vars

(***************************************************************************)
(* Properties of the collection requests                                   *)
(***************************************************************************)
CollReqs == {r \in Reqs : req[r].coll \in Colls}

Refreshing(rq) == rq.pipeline /\ rq.pc # "done"

\* the age of the stored row at the moment the request came in
RowAge(rq) == rq.startedAt - rq.seenRow.timestamp

FoundFresh(rq) == rq.seenRow # NoRow /\ RowAge(rq) < 24 * 60 * 60 * 1000

\* C4 -- Snapshot TTL: a request without refresh=true that finds a
\* snapshot younger than 24h answers at once with the stored data and
\* makes no fetch; one that finds no snapshot, or one that is 24h old or
\* older, starts a refresh.
C4_SnapshotTTL ==
  \A r \in CollReqs :
    ~req[r].force =>
      /\ FoundFresh(req[r]) =>
           /\ ~req[r].pipeline
           /\ req[r].pc = "done"
           /\ req[r].pageCount = 0
           /\ req[r].resp = resJson(JSONparse(req[r].seenRow.data))
      /\ ~FoundFresh(req[r]) => req[r].pipeline

\* a snapshot is served in its last minute (23h59m old or older), and
\* the other request, which wrote it, had found none
C4_Witness ==
  \E r \in CollReqs, q \in CollReqs :
    /\ ~req[r].force /\ FoundFresh(req[r]) /\ ~req[r].pipeline
    /\ RowAge(req[r]) >= 24 * 60 * 60 * 1000 - 60 * 1000
    /\ req[r].resp.t = "json"
    /\ req[q].wrote = req[r].seenRow
    /\ ~req[q].force /\ req[q].seenRow = NoRow /\ req[q].pipeline

\* C5 -- Single in-flight refresh: at any time at most one refresh per
\* collection is running.
C5_SingleInFlightRefresh ==
  \A coll \in Colls :
    Cardinality({r \in Reqs : req[r].coll = coll /\ Refreshing(req[r])}) <= 1

\* C6 -- Failed refresh leaves the snapshot untouched: a request one of
\* whose primary list pages failed ends with an error response and has
\* written no snapshot.
C6_FailedRefreshLeavesSnapshot ==
  \A r \in CollReqs :
    req[r].pageFailed /\ req[r].pc = "done" =>
      req[r].resp = resError /\ req[r].wrote = NoRow

\* C7 -- Primary list page failure is fatal: after a failed page request
\* the list fetched so far is not handed to enrichment.
C7_PageFailureIsFatal ==
  \A r \in CollReqs : req[r].pageFailed => ~req[r].enriched

\* the stored row of a collection is, as a whole, the row of one write
SameWrite(coll, row) ==
  row # NoRow =>
    /\ \E r \in Reqs : req[r].coll = coll /\ req[r].wrote = row
    /\ row.lastUpdated = toISOString(row.timestamp)

\* what a reader was given comes from the one row it found
CoherentRead(rq) ==
  /\ rq.coll \in Colls /\ ~rq.pipeline /\ rq.pc = "done" =>
       rq.resp = resJson(JSONparse(rq.seenRow.data))
  /\ rq.coll = "info" /\ rq.resp.isCached =>
       rq.resp.lastUpdated = rq.seenRow.lastUpdated

\* C10 -- Snapshot atomicity: a stored snapshot is the row of one write, a
\* read returns the data of the row it found, and a snapshot is written
\* only by a refresh that has fully succeeded, that is, none of whose
\* primary list pages failed.
C10_SnapshotAtomicity ==
  /\ SameWrite("roadmap", githubCache)
  /\ SameWrite("issues", aksIssuesCache)
  /\ \A r \in Reqs : CoherentRead(req[r])
  /\ \A r \in Reqs : req[r].wrote # NoRow => ~req[r].pageFailed

(***************************************************************************)
(* Properties of the batches                                               *)
(***************************************************************************)
\* the calls to the inference service and to the graph service that a
\* request has in flight
InFlight(rq) ==
  (IF rq.pc \in {"ids", "page"} THEN 1 ELSE 0)
  + Cardinality({k \in 1..Len(rq.items) :
                   rq.items[k].st \in {"tl", "eta", "an", "cm"}})

RECURSIVE SumInFlight(_)
SumInFlight(rs) ==
  IF rs = {} THEN 0
  ELSE LET r == CHOOSE x \in rs : TRUE
       IN  InFlight(req[r]) + SumInFlight(rs \ {r})

\* C8 as stated -- Batch concurrency bound: counting all refreshes in
\* progress together, the number of inference and graph calls in flight
\* is at most the configured batch size; the larger of the two sizes is
\* taken here.
C8_GlobalConcurrencyBound ==
  SumInFlight(Reqs) <= 8

\* C8 -- Batch concurrency bound, per refresh: each refresh in progress
\* has at most its own batch size of inference and graph calls in
\* flight (8 for roadmap, 5 for issues).
C8_BatchConcurrencyBound ==
  \A r \in CollReqs :
    InFlight(req[r]) <= (IF req[r].coll = "roadmap" THEN 8 ELSE 5)

\* a full batch is in flight and there are items left for a later batch
C8_Witness ==
  \E r \in CollReqs :
    /\ req[r].pc = "batch"
    /\ InFlight(req[r]) = (IF req[r].coll = "roadmap" THEN 8 ELSE 5)
    /\ Len(req[r].given) > req[r].i + Len(req[r].items)

\* the records of the list given to enrichment whose results are due:
\* all of them once the handler is done, those of the batches before the
\* running one otherwise
Covered(rq) ==
  IF rq.pc = "done" THEN Len(rq.given)
  ELSE IF rq.pc = "batchwait"
    THEN Min(rq.i + CONCURRENCY_LIMIT(rq.coll), Len(rq.given))
    ELSE rq.i

\* the records that are not dropped: roadmap records without title are
Kept(rq) ==
  LET due == SubSeq(rq.given, 1, Covered(rq))
  IN  IF rq.coll = "roadmap"
        THEN SelectSeqBy(due, {n \in Range(due) : n.title # <<>>})
        ELSE due

\* C9 -- Order preservation: the enriched output lists the records in
\* input order, element k being the enrichment of the k-th record that
\* is not dropped, whatever the order in which the items of a batch
\* finished; the response and the snapshot written are this output.
C9_OrderPreservation ==
  \A r \in CollReqs :
    req[r].enriched =>
      /\ Len(req[r].out) = Len(Kept(req[r]))
      /\ \A k \in 1..Len(req[r].out) :
           /\ req[r].out[k].id = Kept(req[r])[k].id
           /\ req[r].out[k].title = Kept(req[r])[k].title
           /\ req[r].out[k].body = Kept(req[r])[k].body
      /\ req[r].pc = "done" =>
           /\ req[r].resp = resJson(req[r].out)
           /\ JSONparse(req[r].wrote.data) = req[r].out

\* a refresh of more than one batch is done, a record was dropped, and
\* the first two records of the first batch did not get the same answer
C9_Witness ==
  \E r \in CollReqs :
    /\ req[r].pc = "done" /\ req[r].enriched
    /\ Len(req[r].given) > CONCURRENCY_LIMIT(req[r].coll)
    /\ Len(req[r].out) < Len(req[r].given)
    /\ Len(req[r].out) > CONCURRENCY_LIMIT(req[r].coll)
    /\ req[r].out[1].extractedDate # req[r].out[2].extractedDate

(***************************************************************************)
(* The background retry worker: setInterval(processRetryQueue, 60 * 1000). *)
(* A run is one call of processRetryQueue; WRun(w, run) is the shared      *)
(* state and the run after a step.                                         *)
(***************************************************************************)
RETRY_INTERVAL == 60000
RETRY_BATCH == 3
RETRY_PAUSE == 5000

WRun(w, run) == [w |-> w, run |-> run]

\* failedExtractionQueue.push(item), were it done whatever the result
retryResult_always(w, run, result) ==
  WRun([w EXCEPT !.queue = Append(w.queue, Head(run.itemsToProcess))],
       [run EXCEPT !.pc = "sleep", !.key = <<>>,
                   !.wakeAt = now + RETRY_PAUSE])

\* the result of extractAvailabilityDateWithAI is known: the item goes
\* back to the queue on the sentinel, then the 5s pause starts
\* (index.ts 1485-1493)
retryResult(w, run, result) ==
  WRun(IF result = FailSentinel
         THEN [w EXCEPT !.queue = Append(w.queue, Head(run.itemsToProcess))]
         ELSE w,
       [run EXCEPT !.pc = "sleep", !.key = <<>>,
                   !.wakeAt = now + RETRY_PAUSE])

\* one iteration of for (const item of itemsToProcess) up to its first
\* await (index.ts 1480-1483)
retryItem(w, run) ==
  IF run.itemsToProcess = <<>> THEN WRun(w, IdleRun)
  ELSE
    Const(extractAvailabilityDateWithAI_begin(
            w.cache, Head(run.itemsToProcess).body,
            Head(run.itemsToProcess).title),
          LAMBDA b :
            IF b.kind = "call"
              THEN WRun(w, [run EXCEPT !.pc = "call", !.key = b.key])
              ELSE retryResult(w, run, b.ret))

\* failedExtractionQueue.splice(0): the tick takes the whole queue
processRetryQueue_whole(w) ==
  IF Len(w.queue) = 0 THEN WRun(w, IdleRun)
  ELSE retryItem([w EXCEPT !.queue = <<>>],
                 [IdleRun EXCEPT !.itemsToProcess = w.queue])

\* failedExtractionQueue.slice(0, 3): the tick copies the items and
\* leaves them in the queue
processRetryQueue_copy(w) ==
  IF Len(w.queue) = 0 THEN WRun(w, IdleRun)
  ELSE retryItem(w, [IdleRun EXCEPT
                       !.itemsToProcess = slice(w.queue, 0, RETRY_BATCH)])

\* processRetryQueue up to its first await (index.ts 1472-1483)
processRetryQueue(w) ==
  IF Len(w.queue) = 0 THEN WRun(w, IdleRun)
  ELSE retryItem([w EXCEPT !.queue = slice(w.queue, RETRY_BATCH, Len(w.queue))],
                 [IdleRun EXCEPT
                    !.itemsToProcess = slice(w.queue, 0, RETRY_BATCH)])

\* the inference service answers the call of the run
retryInferenceReturn(w, run, response) ==
  Const(extractAvailabilityDateWithAI_end(response), LAMBDA e :
    Const(saveEnd(w, run.key, e), LAMBDA w1 : retryResult(w1, run, e.ret)))

\* the 5s pause is over: the next iteration
retryTimer(w, run) ==
  retryItem(w, [run EXCEPT !.itemsToProcess = Tail(run.itemsToProcess)])

\* the effects of a step of the worker, were it to save the roadmap
\* snapshot again once an item is dealt with
WorkerApply_resave(k, res) ==
  /\ aiCache' = res.w.cache
  /\ aiWrites' = res.w.writes
  /\ failedExtractionQueue' = res.w.queue
  /\ githubCache' = IF res.run.pc = "sleep" /\ githubCache # NoRow
                      THEN [githubCache EXCEPT !.timestamp = now,
                                               !.lastUpdated = toISOString(now)]
                      ELSE githubCache
  /\ UNCHANGED <<clockVars, callVars, aksIssuesCache, progressVars, fnVars,
                 currentProgress, upstream, req, nreqs>>

WorkerApply(k, res) ==
  /\ aiCache' = res.w.cache
  /\ aiWrites' = res.w.writes
  /\ failedExtractionQueue' = res.w.queue
  /\ UNCHANGED <<clockVars, callVars, snapshotVars, progressVars, fnVars,
                 currentProgress, upstream, req, nreqs>>

\* the interval timer fires
WorkerTick(k) ==
  /\ now >= worker.lastTick + RETRY_INTERVAL
  /\ worker.runs[k].pc = "idle"
  /\ \E res \in {processRetryQueue(World)} :
       /\ WorkerApply(k, res)
       /\ worker' = [worker EXCEPT !.lastTick = @ + RETRY_INTERVAL,
                                   !.runs[k] = res.run]

\* the inference service answers the worker; it fails MaxFailures times
\* at most
WorkerInferenceReturn(k, response) ==
  /\ worker.runs[k].pc = "call"
  /\ response \in ResponsesFor("timeline")
  /\ ~response.ok => worker.failures < MaxFailures
  /\ \E res \in {retryInferenceReturn(World, worker.runs[k], response)} :
       /\ WorkerApply(k, res)
       /\ worker' = [worker EXCEPT
                       !.failures = IF response.ok THEN @ ELSE @ + 1,
                       !.runs[k] = res.run]

WorkerTimer(k) ==
  /\ worker.runs[k].pc = "sleep"
  /\ now >= worker.runs[k].wakeAt
  /\ \E res \in {retryTimer(World, worker.runs[k])} :
       /\ WorkerApply(k, res)
       /\ worker' = [worker EXCEPT !.runs[k] = res.run]

\* the timers that are set
Timers ==
  {worker.lastTick + RETRY_INTERVAL}
    \cup {worker.runs[k].wakeAt : k \in {x \in Runs : worker.runs[x].pc = "sleep"}}

WorkerBusy == \E k \in Runs : worker.runs[k].pc # "idle"

\* time passes until the next timer is due.  The calls of the external
\* services are short against the timers: no time passes while a handler
\* or the worker waits for one.  A tick that finds the queue empty
\* returns at once, so the clock is followed only while there is
\* something left to retry, and for MaxMinutes at most.
Elapse ==
  /\ Quiet
  /\ now < MaxMinutes * RETRY_INTERVAL
  /\ \A k \in Runs : worker.runs[k].pc # "call"
  /\ \A t \in Timers : now < t
  /\ failedExtractionQueue # <<>> \/ WorkerBusy
  /\ now' = CHOOSE t \in Timers : \A u \in Timers : t <= u
  /\ UNCHANGED <<ticks, aiVars, callVars, snapshotVars, refreshVars,
                 progressVars, workerVars, fnVars>>

(***************************************************************************)
(* WorkerSpec: one forced refresh of a project of four items, 0s or 30s     *)
(* after the server has started, and the retry worker.  Every call of an   *)
(* external service returns, and every timer fires.                        *)
(***************************************************************************)
WorkerData ==
  [roadmap |-> << <<Node("i1", TRUE, <<"a">>, <<"y">>, "Planned",
                         <<"dev">>, <<>>, <<>>),
                    Node("i2", TRUE, <<"b">>, <<"x">>, "Planned",
                         <<"dev">>, <<>>, <<>>),
                    Node("i3", TRUE, <<"c">>, <<"x">>, "Planned",
                         <<"dev">>, <<>>, <<>>),
                    Node("i4", TRUE, <<"d">>, <<"x">>, "Planned",
                         <<"dev">>, <<>>, <<>>)>> >>,
   issues |-> << <<>> >>]

WorkerInit ==
  /\ now \in {0, RETRY_INTERVAL \div 2}
  /\ ticks = 0
  /\ aiCache = <<>>
  /\ aiWrites = <<>>
  /\ call = [c \in Callers |-> IdleCall]
  /\ ncalls = 0
  /\ githubCache = NoRow
  /\ aksIssuesCache = NoRow
  /\ failedExtractionQueue = <<>>
  /\ currentProgress = NoProgress
  /\ upstream = WorkerData
  /\ req = [r \in Reqs |-> IdleReq]
  /\ nreqs = 0
  /\ progressClients = {}
  /\ sockets = [c \in Clients |-> NewSocket]
  /\ published = 0
  /\ worker = IdleWorker
  /\ fnArgs = <<>>
  /\ fnResult = <<>>

WorkerRefresh ==
  \/ ReqStart(1, "roadmap", TRUE)
  \/ \E g \in GraphResponses : PageReturn(1, g)
  \/ \E j \in 1..CONCURRENCY_LIMIT_ROADMAP, response \in RefreshResponses :
       ItemInferenceReturn(1, j, response)

WorkerReturns ==
  \E k \in Runs, response \in RefreshResponses :
    WorkerInferenceReturn(k, response)

WorkerNext ==
  \/ WorkerRefresh
  \/ \E k \in Runs : WorkerTick(k)
  \/ WorkerReturns
  \/ \E k \in Runs : WorkerTimer(k)
  \/ Elapse

WorkerSpec ==
  /\ WorkerInit
  /\ [][WorkerNext]_vars
  /\ WF_vars(WorkerRefresh)
  /\ WF_vars(\E k \in Runs : WorkerTick(k))
  /\ WF_vars(WorkerReturns)
  /\ WF_vars(\E k \in Runs : WorkerTimer(k))
  /\ WF_vars(Elapse)

\* C11: an item that is in the retry queue is taken out by the worker and
\* passed to the timeline extraction; once the inference service succeeds
\* and no refresh adds items, the queue is eventually empty and stays out
\* of the hands of the worker
C11_Drained == failedExtractionQueue = <<>> /\ ~WorkerBusy

C11_RetryQueueDrains == (failedExtractionQueue # <<>>) ~> C11_Drained

\* the worker has had a failure of its own, and the queue is empty again
\* after the refresh had filled it
C11_Witness ==
  /\ C11_Drained
  /\ worker.failures > 0
  /\ req[1].pc = "done"
  /\ \E key \in DOMAIN aiCache : Writes(aiWrites, key) > 1

(***************************************************************************)
(* Functions looked at on their own: the arguments are drawn in the        *)
(* initial state, the one action calls the function.  Nothing else of the  *)
(* server runs.                                                            *)
(***************************************************************************)
NoResult == [t |-> "none"]

FnIdle ==
  /\ now = 0
  /\ ticks = 0
  /\ aiCache = <<>>
  /\ aiWrites = <<>>
  /\ call = [c \in Callers |-> IdleCall]
  /\ ncalls = 0
  /\ githubCache = NoRow
  /\ aksIssuesCache = NoRow
  /\ failedExtractionQueue = <<>>
  /\ currentProgress = NoProgress
  /\ upstream = [roadmap |-> <<>>, issues |-> <<>>]
  /\ req = [r \in Reqs |-> IdleReq]
  /\ nreqs = 0
  /\ progressClients = {}
  /\ sockets = [c \in Clients |-> NewSocket]
  /\ published = 0
  /\ worker = IdleWorker

FnUnchanged ==
  UNCHANGED <<clockVars, aiVars, callVars, snapshotVars, refreshVars,
              progressVars, workerVars, fnArgs>>

SeqsUpTo(S, n) == UNION {[1..k -> S] : k \in 0..n}

(***************************************************************************)
(* NeedsSpec: lastComment and needsResponse of an item, for every list of  *)
(* up to MaxComments comments by an assignee, by somebody else or without  *)
(* an author (a deleted account), created at 1..MaxStamp.                  *)
(***************************************************************************)
NeedsComments ==
  {Comment(a, "", <<"y">>, t, "u") :
     a \in {"dev", "guest", ""}, t \in 1..MaxStamp}

NeedsInit ==
  /\ FnIdle
  /\ fnArgs \in [allComments : SeqsUpTo(NeedsComments, MaxComments),
                  allAssigneeLogins : SUBSET {"dev"}]
  /\ fnResult = NoResult

\* index.ts 1359-1373 and 1840-1855
NeedsCall ==
  /\ fnResult = NoResult
  /\ \E lastComment \in {lastCommentOf(fnArgs.allComments)} :
       fnResult' = [t |-> "needs", lastComment |-> lastComment,
                    needsResponse |->
                      needsResponseOf(lastComment, fnArgs.allAssigneeLogins)]
  /\ FnUnchanged

NeedsNext == NeedsCall

NeedsSpec == NeedsInit /\ [][NeedsNext]_vars

\* the positions of the comments that are at least as recent as any other
\* of the positions I
Newest(cs, I) == {i \in I : \A j \in I : cs[i].createdAt >= cs[j].createdAt}

C13_CacheInfoPerCollection ==
  [][\A r \in Reqs :
       (req[r].pc = "idle" /\ req'[r].pc = "done" /\ req'[r].coll = "info"
        /\ req'[r].query = "aks")
         => LET row == loadAKSIssuesCache(aksIssuesCache)
            IN  /\ req'[r].resp.isCached = (row # NoRow)
                /\ row # NoRow => req'[r].resp.lastUpdated = row.lastUpdated
                /\ row = NoRow => IsNull(req'[r].resp.lastUpdated)]_vars

\* the ids of the records of a list
IdsOf(s) == {s[k].id : k \in DOMAIN s}

\* the items of the primary list that a refresh has to enrich: of the
\* project those with an issue that has a title, of the repository at
\* least those that are not on the project
MustEnrich(coll) ==
  IF coll = "roadmap"
    THEN {n.id : n \in {x \in Range(flatten(upstream.roadmap)) :
                          x.hasContent /\ x.title # <<>>}}
    ELSE IdsOf(flatten(upstream.issues))
           \ {n.id : n \in {x \in Range(flatten(upstream.roadmap)) : x.hasContent}}

\* C14: a refresh whose primary list was fetched completes with the full
\* enriched list and writes it as the snapshot whatever the inference
\* calls and the comment page requests did; a timeline is then the
\* sentinel, a text or null, an ETA and a summary an object or null
C14_InferenceFailuresNotFatal ==
  \A r \in CollReqs :
    (req[r].pc = "done" /\ req[r].pipeline /\ ~req[r].pageFailed) =>
      /\ req[r].resp = resJson(req[r].out)
      /\ req[r].wrote # NoRow
      /\ req[r].wrote.data = JSONstringify(req[r].out)
      /\ MustEnrich(req[r].coll) \subseteq IdsOf(req[r].out)
      /\ Len(req[r].out) <= Len(flatten(upstream[req[r].coll]))
      /\ \A k \in DOMAIN req[r].out :
           IF req[r].coll = "roadmap"
             THEN req[r].out[k].extractedDate.t \in {"null", "string"}
             ELSE req[r].out[k].needsResponse \in BOOLEAN

\* a refresh of the project has answered with a record whose timeline is
\* the sentinel, and a refresh of the repository, whose request for the
\* second page of comments of i2 failed, with a record without a summary
C14_Witness ==
  \E r \in CollReqs, q \in CollReqs :
    /\ req[r].coll = "roadmap" /\ req[r].pc = "done"
    /\ req[r].resp.t = "json" /\ req[r].wrote # NoRow
    /\ \E k \in DOMAIN req[r].out : req[r].out[k].extractedDate = FailSentinel
    /\ req[q].coll = "issues" /\ req[q].pc = "done" /\ ~req[q].pageFailed
    /\ req[q].resp.t = "json" /\ req[q].wrote # NoRow
    /\ \E k \in DOMAIN req[q].out :
         /\ req[q].out[k].id = "i2"
         /\ ~req[q].out[k].needsResponse
         /\ IsNull(req[q].out[k].aiSummary)

\* the stored row of a collection
RowOf(coll) == IF coll = "roadmap" THEN githubCache ELSE aksIssuesCache

\* the stored row of a collection after the step
RowAfter(coll) == IF coll = "roadmap" THEN githubCache' ELSE aksIssuesCache'

\* the request of slot r comes in with this step
Arrives(r) == req[r].pc = "idle" /\ req'[r].coll \in Colls

\* C15: a request with refresh=true runs the pipeline also when an
\* unexpired snapshot exists, a request without runs it only when the
\* snapshot is absent or expired; a refresh that ends with the list
\* replaces the stored row as a whole, with the time of the write
C15_ForcedRefresh ==
  [][\A r \in Reqs :
       /\ Arrives(r) =>
            (req'[r].pipeline
               <=> (req'[r].force
                    \/ RowOf(req'[r].coll) = NoRow
                    \/ now - RowOf(req'[r].coll).timestamp >= GITHUB_CACHE_DURATION))
       /\ (req[r].pc # "done" /\ req'[r].pc = "done" /\ req'[r].pipeline
           /\ req'[r].resp.t = "json")
            => /\ RowAfter(req'[r].coll) =
                    [t |-> "row", data |-> JSONstringify(req'[r].resp.body),
                     timestamp |-> now, lastUpdated |-> toISOString(now)]
               /\ req'[r].wrote = RowAfter(req'[r].coll)]_vars

\* a request with refresh=true that found a snapshot younger than 24h has
\* replaced it by a later one
C15_Witness ==
  \E r \in CollReqs :
    /\ req[r].force /\ FoundFresh(req[r]) /\ req[r].pipeline
    /\ req[r].pc = "done" /\ req[r].resp.t = "json"
    /\ RowOf(req[r].coll) = req[r].wrote
    /\ req[r].wrote.timestamp > req[r].seenRow.timestamp

(***************************************************************************)
(* The progress stream.  GET /api/progress adds the response to            *)
(* progressClients and sends nothing; the close event of the request       *)
(* removes it.  A connection can break without a close event having been   *)
(* handled yet: from then on client.write throws.                          *)
(***************************************************************************)
\* the handler of GET /api/progress, were it to write the retained
\* currentProgress to the new observer
Subscribe_replay(c) ==
  /\ sockets[c].st = "new"
  /\ sockets' = [sockets EXCEPT ![c].st = "open", ![c].since = published,
                                ![c].received = 1,
                                ![c].last = currentProgress]
  /\ progressClients' = progressClients \cup {c}
  /\ UNCHANGED <<clockVars, aiVars, callVars, snapshotVars, refreshVars,
                 published, workerVars, fnVars>>

\* app.get('/api/progress') (index.ts 1141-1154)
Subscribe(c) ==
  /\ sockets[c].st = "new"
  /\ sockets' = [sockets EXCEPT ![c].st = "open", ![c].since = published]
  /\ progressClients' = progressClients \cup {c}
  /\ UNCHANGED <<clockVars, aiVars, callVars, snapshotVars, refreshVars,
                 published, workerVars, fnVars>>

\* req.on('close', ...) (index.ts 1151-1153)
Close(c) ==
  /\ sockets[c].st \in {"open", "broken"}
  /\ sockets' = [sockets EXCEPT ![c].st = "closed"]
  /\ progressClients' = progressClients \ {c}
  /\ UNCHANGED <<clockVars, aiVars, callVars, snapshotVars, refreshVars,
                 published, workerVars, fnVars>>

\* the connection breaks
Break(c) ==
  /\ sockets[c].st = "open"
  /\ sockets' = [sockets EXCEPT ![c].st = "broken"]
  /\ UNCHANGED <<clockVars, aiVars, callVars, snapshotVars, refreshVars,
                 progressClients, published, workerVars, fnVars>>

(***************************************************************************)
(* ProgressSpec: observers of the progress stream, a request with          *)
(* refresh=true for the project and a request without for either           *)
(* collection; the project has one item, the repository no open issue.     *)
(***************************************************************************)
ProgressData ==
  [roadmap |-> << <<Node("i1", TRUE, <<"a">>, <<"y">>, "Planned",
                         <<"dev">>, <<>>, <<>>)>> >>,
   issues |-> << <<>> >>]

ProgressInit ==
  /\ now = 0
  /\ ticks = 0
  /\ aiCache = <<>>
  /\ aiWrites = <<>>
  /\ call = [c \in Callers |-> IdleCall]
  /\ ncalls = 0
  /\ githubCache = NoRow
  /\ aksIssuesCache = NoRow
  /\ failedExtractionQueue = <<>>
  /\ currentProgress = NoProgress
  /\ upstream = ProgressData
  /\ req = [r \in Reqs |-> IdleReq]
  /\ nreqs = 0
  /\ progressClients = {}
  /\ sockets = [c \in Clients |-> NewSocket]
  /\ published = 0
  /\ worker = IdleWorker
  /\ fnArgs = <<>>
  /\ fnResult = <<>>

ProgressNext ==
  \/ \E c \in Clients : Subscribe(c)
  \/ \E c \in Clients : Close(c)
  \/ \E c \in Clients : Break(c)
  \/ ReqStart(1, "roadmap", TRUE)
  \/ \E coll \in Colls : ReqStart(2, coll, FALSE)
  \/ \E r \in Reqs, g \in GraphResponses : IdsReturn(r, g)
  \/ \E r \in Reqs, g \in GraphResponses : PageReturn(r, g)
  \/ \E r \in Reqs : PageTimer(r)
  \/ \E r \in Reqs, j \in 1..CONCURRENCY_LIMIT_ROADMAP,
        response \in RefreshResponses : ItemInferenceReturn(r, j, response)

ProgressSpec == ProgressInit /\ [][ProgressNext]_vars

\* C20: a call of sendProgress delivers the event to every observer that
\* is in progressClients and whose write succeeds, and leaves it in the
\* set; an observer whose write throws is removed and gets nothing, nor
\* does an observer that is not in the set
C20_FanOutAndPruning ==
  [][LET k == published' - published
     IN  \A c \in Clients :
           /\ (c \in progressClients /\ sockets[c].st = "open") =>
                /\ sockets'[c].received = sockets[c].received + k
                /\ k > 0 => sockets'[c].last = currentProgress'
                /\ k > 0 => c \in progressClients'
           /\ (c \in progressClients /\ sockets[c].st = "broken" /\ k > 0) =>
                /\ c \notin progressClients'
                /\ sockets'[c].received = sockets[c].received
           /\ c \notin progressClients =>
                /\ sockets'[c].received = sockets[c].received
                /\ k > 0 => c \notin progressClients']_vars

\* observer 1 has got some events, was removed when its write threw and
\* has had no close event; observer 2 has got more events, the last of
\* them the current one, and is still subscribed
C20_Witness ==
  /\ sockets[1].st = "broken" /\ 1 \notin progressClients
  /\ sockets[1].received > 0
  /\ sockets[2].st = "open" /\ 2 \in progressClients
  /\ sockets[2].received > sockets[1].received
  /\ sockets[2].last = currentProgress

\* C16: a request without refresh=true that finds an unexpired snapshot
\* is answered at once: it waits for no call of the graph or the
\* inference service, publishes no progress event and leaves the
\* snapshots, the inference cache and the retry queue as they are
C16_WarmCacheNoSideEffects ==
  [][\A r \in Reqs :
       (Arrives(r) /\ ~req'[r].force /\ RowOf(req'[r].coll) # NoRow
        /\ now - RowOf(req'[r].coll).timestamp < GITHUB_CACHE_DURATION)
         => /\ req'[r].pc = "done"
            /\ req'[r].pageCount = 0 /\ req'[r].items = <<>>
            /\ ~req'[r].pipeline
            /\ published' = published
            /\ UNCHANGED <<snapshotVars, aiVars, failedExtractionQueue,
                           currentProgress, progressVars>>]_vars

\* a request was served from the snapshot while an observer was
\* subscribed and the retry queue held an item; the observer has seen the
\* events of the one refresh only
C16_Witness ==
  \E r \in CollReqs, q \in CollReqs :
    /\ req[r].coll = "roadmap" /\ ~req[r].force /\ ~req[r].pipeline
    /\ req[r].pc = "done" /\ req[r].seenRow # NoRow
    /\ req[q].wrote = req[r].seenRow
    /\ failedExtractionQueue # <<>>
    /\ sockets[1].st = "open" /\ 1 \in progressClients
    /\ sockets[1].received = published
    /\ published > 0

(***************************************************************************)
(* PagingSpec: one refresh of each collection against primary lists of     *)
(* empty pages that are either one page longer than the ceiling of the     *)
(* loop or two pages long.                                                 *)
(***************************************************************************)
EmptyPages(n) == [k \in 1..n |-> <<>>]

LongLists ==
  [roadmap |-> EmptyPages(MAX_PAGES_ROADMAP + 1),
   issues |-> EmptyPages(MAX_PAGES_ISSUES + 1)]

ShortLists == [roadmap |-> EmptyPages(2), issues |-> EmptyPages(2)]

PagingInit ==
  /\ now = 0
  /\ ticks = 0
  /\ aiCache = <<>>
  /\ aiWrites = <<>>
  /\ call = [c \in Callers |-> IdleCall]
  /\ ncalls = 0
  /\ githubCache = NoRow
  /\ aksIssuesCache = NoRow
  /\ failedExtractionQueue = <<>>
  /\ currentProgress = NoProgress
  /\ upstream \in {LongLists, ShortLists}
  /\ req = [r \in Reqs |-> IdleReq]
  /\ nreqs = 0
  /\ progressClients = {}
  /\ sockets = [c \in Clients |-> NewSocket]
  /\ published = 0
  /\ worker = IdleWorker
  /\ fnArgs = <<>>
  /\ fnResult = <<>>

PagingNext ==
  \/ ReqStart(1, "roadmap", TRUE)
  \/ ReqStart(2, "issues", TRUE)
  \/ \E r \in Reqs, g \in GraphResponses : IdsReturn(r, g)
  \/ \E r \in Reqs, g \in GraphResponses : PageReturn(r, g)
  \/ \E r \in Reqs : PageTimer(r)

PagingSpec == PagingInit /\ [][PagingNext]_vars

\* C17: a refresh asks for at most MAX_PAGES pages of its primary list,
\* 50 of the project and 20 of the repository, and a page request is only
\* under way while the last answer, if any, reported a next page
C17_PagingCapped ==
  \A r \in CollReqs :
    /\ req[r].pageCount <= MAX_PAGES(req[r].coll)
    /\ req[r].coll = "roadmap" => req[r].pageCount <= 50
    /\ req[r].coll = "issues" => req[r].pageCount <= 20
    /\ req[r].pc \in {"page", "pagewait"} =>
         req[r].pageCount <= Len(upstream[req[r].coll])
    /\ req[r].pc = "page" => req[r].hasNextPage

\* both refreshes have ended with the list although the last page they
\* got reported a next page: the project after 50 pages, the repository
\* after 20
C17_Witness ==
  \E r \in CollReqs, q \in CollReqs :
    /\ req[r].coll = "roadmap" /\ req[r].pc = "done" /\ req[r].resp.t = "json"
    /\ req[r].pageCount = 50 /\ req[r].hasNextPage
    /\ req[q].coll = "issues" /\ req[q].pc = "done" /\ req[q].resp.t = "json"
    /\ req[q].pageCount = 20 /\ req[q].hasNextPage /\ ~req[q].pageFailed

(***************************************************************************)
(* TerminationSpec: one refresh of each collection, where every call of an *)
(* external service returns and every timer fires.  The project has one    *)
(* item.  The repository has six issues, that is two batches: the first    *)
(* issue has a second page of comments, the first and the last have a      *)
(* body, the others have none and are not analysed.                        *)
(***************************************************************************)
TerminationData ==
  [roadmap |-> <<
     << Node(1, TRUE, <<"a">>, <<"y">>, "Planned", <<"dev">>, <<>>, <<>>) >> >>,
   issues |-> <<
     [k \in 1..(CONCURRENCY_LIMIT_ISSUES + 1) |->
        IF k = 1
          THEN Node(100 + k, TRUE, <<"b">>, <<"x">>, "", <<"dev">>,
                    << Comment("dev", "", <<"y">>, 1, "u1") >>,
                    << << Comment("guest", "", <<"z">>, 2, "u2") >> >>)
          ELSE Node(100 + k, TRUE, <<"b">>,
                    IF k = CONCURRENCY_LIMIT_ISSUES + 1 THEN <<"x">> ELSE <<>>,
                    "", <<"dev">>, <<>>, <<>>)] >>]

TerminationInit ==
  /\ now = 0
  /\ ticks = 0
  /\ aiCache = <<>>
  /\ aiWrites = <<>>
  /\ call = [c \in Callers |-> IdleCall]
  /\ ncalls = 0
  /\ githubCache = NoRow
  /\ aksIssuesCache = NoRow
  /\ failedExtractionQueue = <<>>
  /\ currentProgress = NoProgress
  /\ upstream = TerminationData
  /\ req = [r \in Reqs |-> IdleReq]
  /\ nreqs = 0
  /\ progressClients = {}
  /\ sockets = [c \in Clients |-> NewSocket]
  /\ published = 0
  /\ worker = IdleWorker
  /\ fnArgs = <<>>
  /\ fnResult = <<>>

\* what the request of slot r waits for happens
Settles(r) ==
  \/ \E g \in GraphResponses : IdsReturn(r, g)
  \/ \E g \in GraphResponses : PageReturn(r, g)
  \/ PageTimer(r)
  \/ \E j \in 1..CONCURRENCY_LIMIT_ROADMAP, response \in RefreshResponses :
        ItemInferenceReturn(r, j, response)
  \/ \E j \in 1..CONCURRENCY_LIMIT_ROADMAP, g \in GraphResponses :
        ItemCommentsReturn(r, j, g)
  \/ \E j \in 1..CONCURRENCY_LIMIT_ROADMAP : ItemCommentsTimer(r, j)
  \/ BatchTimer(r)

TerminationNext ==
  \/ ReqStart(1, "roadmap", TRUE)
  \/ ReqStart(2, "issues", TRUE)
  \/ \E r \in Reqs : Settles(r)

TerminationSpec ==
  /\ TerminationInit
  /\ [][TerminationNext]_vars
  /\ \A r \in Reqs : WF_vars(Settles(r))

\* the refresh has ended: with the list and the snapshot written, or
\* with an error
Ended(rq) ==
  /\ rq.pc = "done"
  /\ \/ rq.resp = resError
     \/ rq.resp = resJson(rq.out) /\ rq.wrote # NoRow

\* C18: every refresh that has started ends, with its snapshot written
\* and the list as the answer, or with an error
C18_RefreshTerminates ==
  \A r \in Reqs : Refreshing(req[r]) ~> Ended(req[r])

\* the refresh of the repository has ended with its six issues after two
\* batches and the second page of comments of the first issue, the
\* refresh of the project with an error
C18_Witness ==
  /\ req[1].pipeline /\ Ended(req[1]) /\ req[1].resp = resError
  /\ req[2].pipeline /\ Ended(req[2]) /\ req[2].resp.t = "json"
  /\ Len(req[2].out) = CONCURRENCY_LIMIT_ISSUES + 1
  /\ req[2].out[1].needsResponse

(***************************************************************************)
(* KeySpec: getCacheKey for two inputs.  The titles are the strings of up  *)
(* to MaxTitle characters out of a letter, a digit, a blank and an         *)
(* underscore, and two titles of TITLE_PREFIX + 1 characters that differ   *)
(* in the last one; the bodies have up to MaxBody characters.              *)
(***************************************************************************)
TITLE_PREFIX == 50

LongTitle(c) == [i \in 1..(TITLE_PREFIX + 1) |-> IF i <= TITLE_PREFIX THEN "a" ELSE c]

KeyTitles ==
  SeqsUpTo({"a", "1", " ", "_"}, MaxTitle) \cup {LongTitle("a"), LongTitle("b")}

KeyBodies == SeqsUpTo({"x", "y"}, MaxBody)

KeyInputs == [title : KeyTitles, body : KeyBodies]

KeyInit ==
  /\ FnIdle
  /\ fnArgs \in [a : KeyInputs, b : KeyInputs]
  /\ fnResult = NoResult

\* getCacheKey is called for both inputs
KeyCall ==
  /\ fnResult = NoResult
  /\ fnResult' = [t |-> "keys",
                  a |-> getCacheKey(fnArgs.a.title, fnArgs.a.body),
                  b |-> getCacheKey(fnArgs.b.title, fnArgs.b.body)]
  /\ FnUnchanged

KeyNext == KeyCall

KeySpec == KeyInit /\ [][KeyNext]_vars

\* C19: two inputs whose titles differ or whose bodies differ in length
\* get different keys; the keys are equal only when the titles and the
\* lengths of the bodies are
C19_FingerprintSensitivity ==
  fnResult.t = "keys" =>
    ((fnArgs.a.title # fnArgs.b.title
      \/ Len(fnArgs.a.body) # Len(fnArgs.b.body))
       => fnResult.a # fnResult.b)

(***************************************************************************)
(* The steps a handler can make from its position, computed from a given   *)
(* shared state: used to compare what a handler did with what it would     *)
(* have done in another shared state.                                      *)
(***************************************************************************)
ItemResults(rq, j, w) ==
  LET it == rq.items[j]
      n == nodeOf(rq, j)
  IN  CASE it.st \in {"tl", "eta", "an"} ->
             {itemInferenceReturn(rq.coll, w, n, it, response) :
                response \in ResponsesFor(opOf(it.st))}
        [] it.st = "cm" ->
             {itemCommentsReturn(rq.coll, w, n, it, ok) : ok \in BOOLEAN}
        [] it.st = "cmwait" -> {itemCommentsTimer(rq.coll, w, n, it)}
        [] OTHER -> {}

StepResults(rq, w) ==
  CASE rq.pc = "idle" ->
         {reqStart(w, coll, force) : coll \in Colls, force \in BOOLEAN}
    [] rq.pc = "ids" ->
         {idsReturn(w, rq, g, upstream.roadmap) : g \in GraphResponses}
    [] rq.pc = "page" ->
         {pageReturn(w, rq, g, upstream[rq.coll]) : g \in GraphResponses}
    [] rq.pc = "pagewait" -> {pageTimer(w, rq)}
    [] rq.pc = "batch" ->
         UNION {{afterItems(s.w, [rq EXCEPT !.items[j] = s.it]) :
                   s \in ItemResults(rq, j, w)} : j \in DOMAIN rq.items}
    [] rq.pc = "batchwait" ->
         {runBatches(w, [rq EXCEPT !.i = rq.i + CONCURRENCY_LIMIT(rq.coll)])}
    [] OTHER -> {}

\* the shared state without any observer of the progress stream
Unobserved(w) == [w EXCEPT !.clients = {}]

\* the step has left the handler and everything but the observers as res
SameButObservers(r, res) ==
  /\ req'[r] = res.rq
  /\ aiCache' = res.w.cache
  /\ aiWrites' = res.w.writes
  /\ failedExtractionQueue' = res.w.queue
  /\ currentProgress' = res.w.progress
  /\ githubCache' = res.w.github
  /\ aksIssuesCache' = res.w.aks
  /\ published' = res.w.published

\* C21: an observer that closes or loses its connection leaves a running
\* refresh as it is, and every step of a handler is the step it makes
\* when nobody is subscribed: the same position, calls, cache rows,
\* snapshot and response
C21_NoCancellation ==
  [][/\ (progressClients' # progressClients \/ sockets' # sockets)
          /\ published' = published
          => UNCHANGED <<clockVars, aiVars, snapshotVars, refreshVars>>
     /\ \A r \in Reqs :
          req'[r] # req[r] =>
            \E res \in StepResults(req[r], Unobserved(World)) :
              SameButObservers(r, res)]_vars

\* observer 1 had got events of the refresh of slot 1 and closed while it
\* was running; the refresh has ended with the list and its snapshot
C21_Witness ==
  /\ sockets[1].st = "closed"
  /\ sockets[1].received > 0
  /\ sockets[1].received < published
  /\ progressClients = {}
  /\ req[1].pipeline /\ req[1].pc = "done" /\ req[1].resp.t = "json"
  /\ githubCache = req[1].wrote
  /\ req[2].pc = "idle"

(***************************************************************************)
(* C22: every inference attempt is recorded                                *)
(***************************************************************************)
\* the step in which the inference call of caller c comes back and the
\* operation returns
Returned(c) == call[c].pc = "inflight" /\ call'[c].pc = "done"

\* the call raised an error
Raised(response) == ~response.ok

\* the response is not the JSON text of an object (ETA and analysis parse
\* their response; the timeline operation takes the text as it is)
Unparseable(op, response) ==
  /\ op # "timeline"
  /\ response.ok
  /\ ~falsy(trimContent(response.content))
  /\ \/ JSONparseThrows(stripFence(trimContent(response.content)))
     \/ JSONparse(stripFence(trimContent(response.content))).t # "object"

\* C22: each external inference call of a gateway operation is followed,
\* in the step in which the operation returns, by exactly one upsert, of
\* the row of its key and of no other row, stamped with the current time;
\* the row has failed=true exactly when the call raised an error or the
\* response could not be parsed, and then the operation returns its
\* sentinel (timeline) or null (ETA, analysis); no row is written while
\* the call is in flight by the operation itself.
C22_AttemptRecorded ==
  [][\A c \in Callers :
       /\ Returned(c) =>
            LET k == call[c].key
                op == call[c].op
                response == call'[c].resp[1]
                row == loadAICache(aiCache', k)
                bad == Raised(response) \/ Unparseable(op, response)
            IN  /\ call[c].kind = "call" /\ call[c].ext = 1
                /\ Writes(aiWrites', k) = Writes(aiWrites, k) + 1
                /\ \A x \in (DOMAIN aiWrites \cup DOMAIN aiWrites') \ {k} :
                     /\ Writes(aiWrites', x) = Writes(aiWrites, x)
                     /\ loadAICache(aiCache', x) = loadAICache(aiCache, x)
                /\ row # NoRow
                /\ row.timestamp = now
                /\ row.failed <=> bad
                /\ bad => call'[c].ret = Sentinel(op)
       /\ (call'[c] # call[c] /\ ~Returned(c)) =>
            /\ aiWrites' = aiWrites /\ aiCache' = aiCache
            /\ call'[c].kind = "call" <=> call'[c].pc = "inflight"]_vars

\* a timeline call that raised, an ETA call whose answer was not JSON,
\* both recorded as failed, the second one after the clock has moved
C22_Witness ==
  \E c1, c2 \in Callers :
    /\ Done(c1) /\ call[c1].op = "timeline" /\ call[c1].kind = "call"
    /\ call[c1].resp = <<Throws>> /\ call[c1].ret = FailSentinel
    /\ Done(c2) /\ call[c2].op = "eta" /\ call[c2].kind = "call"
    /\ Unparseable("eta", call[c2].resp[1]) /\ IsNull(call[c2].ret)
    /\ loadAICache(aiCache, call[c2].key).failed
    /\ loadAICache(aiCache, call[c2].key).timestamp > 0

(***************************************************************************)
(* C23: responses that are valid JSON but lack the expected fields         *)
(***************************************************************************)
\* the response parses to an object without date or text (ETA), without
\* currentStatus, nextSteps or analysis (analysis)
ShapeError(op, response) ==
  /\ op # "timeline"
  /\ response.ok
  /\ ~falsy(trimContent(response.content))
  /\ ~Unparseable(op, response)
  /\ LET parsed == JSONparse(stripFence(trimContent(response.content)))
     IN  IF op = "eta"
           THEN parsed.date = <<>> \/ parsed.text = <<>>
           ELSE parsed.currentStatus = <<>> \/ parsed.nextSteps = <<>>
                \/ parsed.analysis = <<>>

\* the call of c went to the inference service and got a response
\* lacking the expected fields
GotShapeError(c) ==
  /\ Done(c) /\ call[c].kind = "call"
  /\ ShapeError(call[c].op, call[c].resp[1])

\* C23 as stated: when the inference service returns valid JSON that lacks
\* the expected fields, the row the gateway writes has failed=true (as
\* long as no later call has rewritten it), and a call with the same input
\* that looks the row up more than 60s after it was written issues a new
\* external call.
C23_ShapeErrorsCachedAsFailed ==
  \A c1, c2 \in Callers :
    /\ (GotShapeError(c1) /\ Writes(aiWrites, call[c1].key) = call[c1].endWrites)
         => loadAICache(aiCache, call[c1].key).failed
    /\ (/\ c1 # c2 /\ GotShapeError(c1) /\ SameInput(c1, c2)
        /\ LookedUp(c2) /\ call[c2].sawWrites = call[c1].endWrites
        /\ call[c2].seen # NoRow
        /\ SeenAge(c2) > oneMinute)
         => call[c2].ext = 1

(***************************************************************************)
(* Gateway calls with empty input                                          *)
(***************************************************************************)
\* the three operations on the second input (which they process) and on
\* the inputs with nothing to process
SkipCalls == Ops \X {2, 3, 4, 5}

SkipNext ==
  \/ \E c \in Callers, oi \in SkipCalls : CallStart(c, oi[1], oi[2])
  \/ \E c \in Callers, response \in GwResponses : CallReturn(c, response)

SkipSpec == GwInit /\ [][SkipNext]_vars

\* the input has nothing for the operation to process
EmptyInput(op, inp) ==
  IF op = "eta"
    THEN \A i \in 1..Len(inp.comments) :
           \/ inp.comments[i].author \notin inp.assigneeLogins
           \/ Len(trim(inp.comments[i].body)) = 0
    ELSE Len(trim(inp.body)) = 0

\* the rows a call with this input would use if it computed its key
KeyOf(op, inp) ==
  CASE op = "timeline" -> getCacheKey(inp.title, inp.body)
    [] op = "eta" ->
         etaCacheKey(msCommentsOf(inp.comments, inp.assigneeLogins), inp.title)
    [] op = "analysis" -> analysisCacheKey(inp.title, inp.body, inp.comments)

\* C24: a gateway operation called with empty input (a blank or empty
\* body for the timeline and the analysis, no comment or no non-blank
\* comment of an assignee for the ETA) returns null at once, whatever the
\* cache holds: it looks up no row, issues no external call and the step
\* writes no row.
C24_EmptyInputSkipped ==
  [][\A c \in Callers :
       (call'[c] # call[c] /\ call'[c].inp # 0
          /\ EmptyInput(call'[c].op, GwInputs[call'[c].inp]))
       => /\ call'[c].pc = "done"
          /\ call'[c].kind = "skip"
          /\ IsNull(call'[c].ret)
          /\ call'[c].seen = NoRow
          /\ call'[c].ext = 0
          /\ ~call'[c].wrote
          /\ aiCache' = aiCache /\ aiWrites' = aiWrites]_vars

\* an analysis with a blank body skipped while the cache holds a success
\* row under the key its title, body length and comment count give, and
\* an ETA extraction skipped for want of an assignee comment
C24_Witness ==
  \E c1, c2 \in Callers :
    /\ Done(c1) /\ call[c1].op = "analysis" /\ call[c1].inp = 3
    /\ call[c1].kind = "skip"
    /\ loadAICache(aiCache, KeyOf("analysis", GwInputs[3])) # NoRow
    /\ ~loadAICache(aiCache, KeyOf("analysis", GwInputs[3])).failed
    /\ Done(c2) /\ call[c2].op = "eta" /\ call[c2].inp = 5
    /\ call[c2].kind = "skip"

(***************************************************************************)
(* C25: batch barrier                                                      *)
(***************************************************************************)
\* the items of the current batch that have not resolved
Unresolved(rq) == {k \in DOMAIN rq.items : rq.items[k].st # "done"}

\* the request is in its batch loop
InLoop(rq) == rq.pc \in {"batch", "batchwait"}

\* a step of request r in which the items of a batch start
StartsBatch(r) ==
  /\ req'[r].pc = "batch"
  /\ ~InLoop(req[r]) \/ req'[r].i # req[r].i

\* C25: within one refresh the items of a batch start in one step, which
\* is taken only when at most the item that resolves in this very step
\* was unresolved in the batch before, and so is the end of the loop;
\* the batch is the slice of the input from a multiple i of the batch
\* size (8 roadmap, 5 issues) to i + size, or to the end of the input if
\* that comes first, and i is the i of the batch before plus the size;
\* while the batch is in progress a step of the request starts no item:
\* it publishes no progress event and leaves the batch and its start
\* index as they are.
C25_BatchBarrier ==
  [][\A r \in Reqs :
       LET limit == CONCURRENCY_LIMIT(req'[r].coll)
           after == req'[r]
       IN  /\ StartsBatch(r) =>
                /\ Cardinality(Unresolved(req[r])) <= 1
                /\ after.i = IF InLoop(req[r]) THEN req[r].i + limit ELSE 0
                /\ after.i % limit = 0
                /\ after.i < Len(after.given)
                /\ Len(after.items) = Min(limit, Len(after.given) - after.i)
                /\ InLoop(req[r]) =>
                     /\ after.given = req[r].given
                     /\ published' = published + Len(after.items)
           /\ (InLoop(req[r]) /\ after.pc = "done") =>
                Cardinality(Unresolved(req[r])) <= 1
           /\ (req[r].pc = "batch" /\ InLoop(after) /\ after # req[r]
                 /\ after.i = req[r].i) =>
                /\ published' = published
                /\ after.given = req[r].given
                /\ after.pc = "batch" => Len(after.items) = Len(req[r].items)
                /\ Unresolved(after) \subseteq Unresolved(req[r])]_vars

\* the second, shorter batch of a roadmap refresh in progress with an item
\* unresolved, the first batch being in the output
C25_Witness ==
  \E r \in Reqs :
    /\ req[r].pc = "batch" /\ req[r].coll = "roadmap"
    /\ req[r].i = CONCURRENCY_LIMIT_ROADMAP
    /\ Len(req[r].items) < CONCURRENCY_LIMIT_ROADMAP
    /\ Len(req[r].out) = CONCURRENCY_LIMIT_ROADMAP
    /\ Cardinality(Unresolved(req[r])) >= 1
    /\ published > CONCURRENCY_LIMIT_ROADMAP + Len(req[r].items)

(***************************************************************************)
(* C26: one tick of the retry worker                                       *)
(***************************************************************************)
\* the row of the timeline extraction of a queued item
ItemRow(c, item) == loadAICache(c, getCacheKey(item.title, item.body))

\* the call for the item came back with the failure sentinel: it found a
\* failure of less than a minute ago, or it has just failed
GaveSentinel(c, item) ==
  /\ ~isBlank(item.body)
  /\ ItemRow(c, item) # NoRow
  /\ ItemRow(c, item).failed
  /\ now - ItemRow(c, item).timestamp < oneMinute

\* the queue after the extraction for the item has returned
Requeued(queue, c, item) ==
  IF GaveSentinel(c, item) THEN Append(queue, item) ELSE queue

\* C26: a tick of processRetryQueue that finds the queue empty takes
\* nothing and starts nothing; otherwise it takes the first 3 items of the
\* queue (all of them if there are fewer) and leaves the others in the
\* queue in their order.  The items taken are passed to
\* extractAvailabilityDateWithAI one after the other in queue order, each
\* once: the call in flight is the one for the first item not yet dealt
\* with.  When the call for an item has returned the failure sentinel the
\* item is appended at the tail of the queue, behind every item waiting
\* there, and otherwise the queue is left as it is.
C26_RetryTick ==
  [][LET queue == failedExtractionQueue
         taken == slice(queue, 0, RETRY_BATCH)
         rest == slice(queue, RETRY_BATCH, Len(queue))
     IN  /\ worker'.lastTick # worker.lastTick =>
              IF queue = <<>>
                THEN /\ worker'.runs = worker.runs
                     /\ UNCHANGED <<failedExtractionQueue, aiVars>>
                ELSE \E k \in Runs :
                       LET after == worker'.runs[k]
                       IN  /\ worker.runs[k].pc = "idle"
                           /\ \A x \in Runs \ {k} :
                                worker'.runs[x] = worker.runs[x]
                           /\ Len(taken) <= RETRY_BATCH
                           /\ taken \o rest = queue
                           /\ after.itemsToProcess = taken
                           /\ after.pc \in {"call", "sleep"}
                           /\ after.pc = "call" =>
                                failedExtractionQueue' = rest
                           /\ after.pc = "sleep" =>
                                failedExtractionQueue'
                                  = Requeued(rest, aiCache', Head(taken))
         /\ \A k \in Runs :
              LET run == worker.runs[k]
                  after == worker'.runs[k]
              IN  /\ after.pc = "call" =>
                       /\ after.itemsToProcess # <<>>
                       /\ after.key
                            = getCacheKey(Head(after.itemsToProcess).title,
                                          Head(after.itemsToProcess).body)
                  /\ (run.pc = "call" /\ after # run) =>
                       /\ after.pc = "sleep"
                       /\ after.itemsToProcess = run.itemsToProcess
                       /\ Writes(aiWrites', run.key)
                            = Writes(aiWrites, run.key) + 1
                       /\ failedExtractionQueue'
                            = Requeued(queue, aiCache',
                                       Head(run.itemsToProcess))
                  /\ (run.pc = "sleep" /\ after # run) =>
                       /\ after.itemsToProcess = Tail(run.itemsToProcess)
                       /\ IF after.itemsToProcess = <<>>
                            THEN after = IdleRun
                                 /\ failedExtractionQueue' = queue
                            ELSE /\ after.pc \in {"call", "sleep"}
                                 /\ after.pc = "call" =>
                                      failedExtractionQueue' = queue
                                 /\ after.pc = "sleep" =>
                                      failedExtractionQueue'
                                        = Requeued(queue, aiCache',
                                            Head(after.itemsToProcess))]_vars

\* a tick has taken three of four items and left the fourth; the first
\* has failed again and waits behind the fourth, the second is in flight
C26_Witness ==
  \E k \in Runs :
    /\ worker.runs[k].pc = "call"
    /\ Len(worker.runs[k].itemsToProcess) = RETRY_BATCH - 1
    /\ Len(failedExtractionQueue) = 2
    /\ GaveSentinel(aiCache, failedExtractionQueue[2])
    /\ ~GaveSentinel(aiCache, failedExtractionQueue[1])
    /\ Writes(aiWrites, getCacheKey(failedExtractionQueue[2].title,
                                    failedExtractionQueue[2].body)) > 1

(***************************************************************************)
(* CommentsSpec: one forced refresh of either collection; the first record *)
(* has an inline page of comments and two more pages, the second has all   *)
(* its comments inline, the third has an empty title and no comment.       *)
(***************************************************************************)
LongThread ==
  << Node("i1", TRUE, <<"a">>, <<"y">>, "Planned", <<"dev">>,
          << Comment("dev", "", <<"y">>, 1, "u1") >>,
          << << Comment("guest", "", <<"z">>, 2, "u2") >>,
             << Comment("dev", "", <<"w">>, 3, "u3") >> >>),
     Node("i2", TRUE, <<"b">>, <<"x">>, "Planned", <<"dev">>,
          << Comment("dev", "", <<"v">>, 1, "u4") >>, <<>>),
     Node("i3", TRUE, <<>>, <<"x">>, "Planned", <<"dev">>, <<>>, <<>>) >>

CommentsData == [roadmap |-> <<LongThread>>, issues |-> <<LongThread>>]

CommentsInit ==
  /\ now = 0
  /\ ticks = 0
  /\ aiCache = <<>>
  /\ aiWrites = <<>>
  /\ call = [c \in Callers |-> IdleCall]
  /\ ncalls = 0
  /\ githubCache = NoRow
  /\ aksIssuesCache = NoRow
  /\ failedExtractionQueue = <<>>
  /\ currentProgress = NoProgress
  /\ upstream = CommentsData
  /\ req = [r \in Reqs |-> IdleReq]
  /\ nreqs = 0
  /\ progressClients = {}
  /\ sockets = [c \in Clients |-> NewSocket]
  /\ published = 0
  /\ worker = IdleWorker
  /\ fnArgs = <<>>
  /\ fnResult = <<>>

CommentsNext ==
  \/ \E coll \in Colls : ReqStart(1, coll, TRUE)
  \/ \E g \in GraphResponses : IdsReturn(1, g)
  \/ \E g \in GraphResponses : PageReturn(1, g)
  \/ PageTimer(1)
  \/ \E j \in 1..Len(LongThread), response \in RefreshResponses :
       ItemInferenceReturn(1, j, response)
  \/ \E j \in 1..Len(LongThread), g \in GraphResponses :
       ItemCommentsReturn(1, j, g)
  \/ \E j \in 1..Len(LongThread) : ItemCommentsTimer(1, j)

CommentsSpec == CommentsInit /\ [][CommentsNext]_vars

\* the inline comments of a record followed by its first m further pages
FirstPages(n, m) == n.comments \o flatten(SubSeq(n.commentPages, 1, m))

\* the item is in fetchAllComments
Paging(it) == it.st \in {"cm", "cmwait"}

\* C27: fetchAllComments is entered only for a record whose inline page
\* reported more pages.  While it runs and when it has returned, the
\* comments of the item are the inline comments followed, in page order,
\* by the pages fetched so far.  A page that arrives is appended and the
\* next page is requested as long as the page just fetched reported more
\* pages; when a page request fails, or no page is left, the item goes on
\* with the comments accumulated so far, and the request does not end in
\* an error.
C27_CommentPaging ==
  [][\A r \in Reqs :
       (req[r].pc = "batch" /\ req'[r] # req[r]) =>
         /\ req'[r].resp.t # "error"
         /\ (req'[r].pc = "batch" /\ req'[r].i = req[r].i) =>
              \A j \in DOMAIN req[r].items :
                LET it == req[r].items[j]
                    after == req'[r].items[j]
                    n == nodeOf(req[r], j)
                IN  /\ Paging(after) =>
                         /\ Len(n.commentPages) > 0
                         /\ after.cmNext <= Len(n.commentPages) + 1
                         /\ after.allComments = FirstPages(n, after.cmNext - 1)
                    /\ after.st = "cm" => after.cmNext <= Len(n.commentPages)
                    /\ (it.st = "cm" /\ after # it) =>
                         \/ /\ after.st = "cmwait"
                            /\ after.cmNext = it.cmNext + 1
                         \/ /\ ~Paging(after)
                            /\ after.cmNext = it.cmNext
                            /\ after.allComments = it.allComments
                    /\ (it.st = "cmwait" /\ after # it) =>
                         /\ after.cmNext = it.cmNext
                         /\ after.allComments = it.allComments
                         /\ after.st = "cm" <=> it.cmNext <= Len(n.commentPages)
                    /\ (~Paging(it) /\ ~Paging(after)
                          /\ it.st \in {"eta", "an"}) =>
                         after.allComments = it.allComments]_vars

\* an item whose second page request failed goes on with the inline
\* comments and the first page, while the other item of the batch, which
\* had no further page, is resolved
C27_Witness ==
  /\ req[1].pc = "batch"
  /\ req[1].items[1].st \in {"eta", "an"}
  /\ req[1].items[1].cmNext = 2
  /\ req[1].items[1].allComments = FirstPages(LongThread[1], 1)
  /\ req[1].items[2].st = "done"
  /\ req[1].items[2].cmNext = 1

(***************************************************************************)
(* C28: records without a title                                            *)
(***************************************************************************)
\* the records a refresh handed to enrichment that have a title
Titled(rq) == SelectSeqBy(rq.given, {n \in Range(rq.given) : n.title # <<>>})

\* C28 as stated: in both collections a record without a title is left
\* out of the output of the enrichment, every record with a title is in
\* it, the refresh completes and the snapshot is written.
C28_UntitledDropped ==
  \A r \in Reqs :
    (req[r].pc = "done" /\ req[r].enriched) =>
      /\ req[r].resp = resJson(req[r].out)
      /\ req[r].wrote # NoRow
      /\ req[r].wrote.data = JSONstringify(req[r].out)
      /\ \A k \in DOMAIN req[r].out : req[r].out[k].title # <<>>
      /\ IdsOf(Titled(req[r])) = IdsOf(req[r].out)

(***************************************************************************)
(* C29: one progress event per item, at its start                          *)
(***************************************************************************)
\* the progress event of the record with 0-based index g of a refresh
ItemEvent(coll, g, total) ==
  IF coll = "roadmap"
    THEN [step |-> "Processing AI extraction", current |-> g + 1,
          total |-> total]
    ELSE [step |-> "Analyzing issue", current |-> progressPercent(g, total),
          total |-> 100]

\* the events a handler sends between the arrival of its primary list and
\* its first batch
Announcements(coll) == IF coll = "roadmap" THEN 1 ELSE 2

etaPromptComments(comments, assigneeLogins) ==
  sortNewestFirst(msCommentsOf(comments, assigneeLogins))

\* recentComments of analyzeIssueWithAI, before the map to text
\* (index.ts 1540-1544)
analysisPromptComments(comments) == slice(sortNewestFirst(comments), 0, 10)

\* what the handlers pass: the roadmap handler all the comments of the
\* item (index.ts 1355-1357), the issues handler the 10 most recent ones
\* that have an author (1857-1859)
promptComments(op, allComments, allAssigneeLogins) ==
  IF op = "eta" THEN etaPromptComments(allComments, allAssigneeLogins)
  ELSE analysisPromptComments(recentCommentsOf(allComments))

PromptComments ==
  {Comment(a, "", b, t, "u") :
     a \in {"dev", "guest", ""}, b \in {<<"y">>, <<" ">>}, t \in 1..MaxStamp}

PromptInit ==
  /\ FnIdle
  /\ fnArgs \in [op : {"eta", "analysis"},
                  allComments : SeqsUpTo(PromptComments, MaxComments),
                  allAssigneeLogins : SUBSET {"dev"}]
  /\ fnResult = NoResult

PromptCall ==
  /\ fnResult = NoResult
  /\ fnResult' = [t |-> "prompt",
                  comments |-> promptComments(fnArgs.op, fnArgs.allComments,
                                              fnArgs.allAssigneeLogins)]
  /\ FnUnchanged

PromptNext == PromptCall

PromptSpec == PromptInit /\ [][PromptNext]_vars

\* the number of positions of cs that hold the comment c
Copies(cs, c) == Cardinality({i \in DOMAIN cs : cs[i] = c})

C31_NoBacklog ==
  \A c \in Clients :
    /\ sockets[c].st = "new" =>
         /\ c \notin progressClients
         /\ sockets[c].received = 0 /\ sockets[c].last = NoProgress
    /\ sockets[c].st # "new" =>
         /\ sockets[c].since <= published
         /\ sockets[c].received <= published - sockets[c].since
         /\ sockets[c].received = 0 => sockets[c].last = NoProgress
    /\ (c \in progressClients /\ sockets[c].st = "open") =>
         /\ sockets[c].received = published - sockets[c].since
         /\ sockets[c].received > 0 => sockets[c].last = currentProgress

\* observer 1 subscribed in the middle of a refresh and has got the
\* events published since; observer 2 has just subscribed and has got
\* nothing, the retained progress included
C31_Witness ==
  /\ sockets[1].st = "open" /\ 1 \in progressClients
  /\ sockets[1].since > 0
  /\ sockets[1].received > 1
  /\ sockets[2].st = "open" /\ 2 \in progressClients
  /\ sockets[2].since = published
  /\ sockets[2].received = 0
  /\ currentProgress # NoProgress
  /\ \E r \in Reqs : req[r].pc = "batch"

(***************************************************************************)
(* C32: the type of a subscription                                         *)
(***************************************************************************)
\* the collection an observer asks for: observer 1 is the roadmap page,
\* new EventSource('/api/progress?type=roadmap') (App.tsx 225), the
\* others are the issues page, '/api/progress?type=aks'
\* (AKSIssuesPage.tsx 142).  The handler does not read the query.
SubscribedFor(c) == IF c = 1 THEN "roadmap" ELSE "issues"

\* C32 as stated: a step of a refresh of one collection delivers no event
\* to an observer that subscribed for the other collection.
C32_ScopedProgress ==
  [][\A r \in Reqs, c \in Clients :
       (req'[r] # req[r] /\ req'[r].coll # SubscribedFor(c))
         => sockets'[c].received = sockets[c].received]_vars

IndexOf(s, x) ==
  IF \E k \in DOMAIN s : s[k] = x
    THEN CHOOSE k \in DOMAIN s : s[k] = x /\ \A j \in 1..(k - 1) : s[j] # x
    ELSE 0

Times(s, x) == Cardinality({k \in DOMAIN s : s[k] = x})

\* the refresh r has ended with its list as the answer
Answered(rq) == rq.pipeline /\ rq.pc = "done" /\ rq.resp.t = "json"

\* the refresh r has ended with an error
Failed(rq) == rq.pipeline /\ rq.pc = "done" /\ rq.resp = resError

\* C34: a refresh that ends with its list publishes 'Saving to cache',
\* then writes the snapshot, then publishes 'Complete', then answers, each
\* once; the step in which a refresh ends with an error publishes no event
\* and writes to no observer, so that currentProgress and what each
\* observer saw last stay as they were.
C34_CompletionOrder ==
  [][\A r \in Reqs :
       /\ (Answered(req'[r]) /\ ~Answered(req[r])) =>
            LET o == req'[r].order IN
            /\ \A x \in {"Saving to cache", "save", "Complete", "res.json"} :
                 Times(o, x) = 1
            /\ IndexOf(o, "Saving to cache") < IndexOf(o, "save")
            /\ IndexOf(o, "save") < IndexOf(o, "Complete")
            /\ IndexOf(o, "Complete") < IndexOf(o, "res.json")
            /\ req'[r].wrote # NoRow
            /\ currentProgress'.step = "Complete"
            /\ published' >= published + 2
       /\ (Failed(req'[r]) /\ ~Failed(req[r])) =>
            /\ published' = published
            /\ currentProgress' = currentProgress
            /\ sockets' = sockets
            /\ req'[r].order = <<>>
            /\ req'[r].wrote = NoRow]_vars

\* one refresh has ended with its list while an observer that had seen
\* earlier events listened, another has ended with an error
C34_Witness ==
  /\ \E r \in Reqs : Answered(req[r]) /\ Len(req[r].order) = 4
  /\ \E r \in Reqs : Failed(req[r])
  /\ \E c \in Clients : sockets[c].st = "open" /\ sockets[c].received > 2

(***************************************************************************)
(* C35: the retry queue loses and makes no item                            *)
(***************************************************************************)
\* the items a run of processRetryQueue has taken and not yet dealt with:
\* the first of itemsToProcess is in flight during the call and dealt
\* with during the pause
Waiting(run) ==
  IF run.pc = "call" THEN run.itemsToProcess
  ELSE IF run.pc = "sleep" THEN Tail(run.itemsToProcess)
  ELSE <<>>

RECURSIVE WaitingIn(_, _, _)
WaitingIn(runs, ks, x) ==
  IF ks = {} THEN 0
  ELSE LET k == CHOOSE y \in ks : TRUE
       IN  Times(Waiting(runs[k]), x) + WaitingIn(runs, ks \ {k}, x)

\* how often the item x is held: in the queue or with a run that has yet
\* to deal with it
Held(queue, wk, x) == Times(queue, x) + WaitingIn(wk.runs, Runs, x)

\* every item of the queue and of the runs, before and after a step
HeldItems(queue, wk) ==
  Range(queue)
    \cup UNION {Range(wk.runs[k].itemsToProcess) : k \in Runs}

\* the run has dealt with an item in this step: the pause after it starts
DealtWith(run, after) == after # run /\ after.pc = "sleep"

EnqueueNext ==
  \/ \E r \in Reqs, coll \in Colls : ReqStart(r, coll, TRUE)
  \/ \E r \in Reqs, g \in GraphResponses : IdsReturn(r, g)
  \/ \E r \in Reqs, g \in GraphResponses : PageReturn(r, g)
  \/ \E r \in Reqs : PageTimer(r)
  \/ \E r \in Reqs, j \in 1..Len(LongThread), response \in RefreshResponses :
       ItemInferenceReturn(r, j, response)
  \/ \E r \in Reqs, j \in 1..Len(LongThread), g \in GraphResponses :
       ItemCommentsReturn(r, j, g)
  \/ \E r \in Reqs, j \in 1..Len(LongThread) : ItemCommentsTimer(r, j)

EnqueueSpec == CommentsInit /\ [][EnqueueNext]_vars

\* the queue element addToRetryQueue makes of a record
QueueItem(title, body) == [title |-> title, body |-> body]

\* how many of the records of the refresh that are equal to x have had the
\* failure sentinel from their timeline extraction: the records of the
\* batches that are over, and those of the running batch
SentinelsOf(rq, x) ==
  IF rq.coll # "roadmap" THEN 0
  ELSE Cardinality({k \in DOMAIN rq.out :
                      /\ rq.out[k].extractedDate = FailSentinel
                      /\ QueueItem(rq.out[k].title, rq.out[k].body) = x})
       + Cardinality({j \in DOMAIN rq.items :
                        /\ rq.items[j].extractedDate = FailSentinel
                        /\ QueueItem(nodeOf(rq, j).title, nodeOf(rq, j).body)
                             = x})

RECURSIVE SentinelsIn(_, _, _)
SentinelsIn(rqs, rs, x) ==
  IF rs = {} THEN 0
  ELSE LET r == CHOOSE y \in rs : TRUE
       IN  SentinelsOf(rqs[r], x) + SentinelsIn(rqs, rs \ {r}, x)

\* the records of the collections, as queue elements
QueueItems ==
  {QueueItem(n.title, n.body) :
     n \in UNION {Range(flatten(upstream[coll])) : coll \in Colls}}

\* C36: while no worker runs, the queue holds a record as many times as a
\* roadmap refresh had the failure sentinel from the timeline extraction
\* of that record, and nothing else: one element for each sentinel, after
\* a failed call as after a cooldown; no element for a timeline that is
\* there or is null, for a failed ETA or analysis, or for a record of a
\* refresh of the issues.
C36_EnqueueRule ==
  /\ Range(failedExtractionQueue) \subseteq QueueItems
  /\ \A x \in QueueItems :
       Times(failedExtractionQueue, x) = SentinelsIn(req, Reqs, x)

\* both clients refresh the roadmap: the first record is queued twice
\* after one failed call, the ETA extraction of the second record has
\* failed, and the second record is not queued
C36_Witness ==
  LET first == QueueItem(LongThread[1].title, LongThread[1].body)
      second == QueueItem(LongThread[2].title, LongThread[2].body)
  IN  /\ \A r \in {1, 2} : req[r].coll = "roadmap" /\ req[r].pc = "done"
      /\ Times(failedExtractionQueue, first) = 2
      /\ Writes(aiWrites, getCacheKey(first.title, first.body)) = 1
      /\ Times(failedExtractionQueue, second) = 0
      /\ \E key \in DOMAIN aiCache :
           /\ aiCache[key].failed
           /\ key # getCacheKey(first.title, first.body)

(***************************************************************************)
(* C37: the retry worker and the snapshots                                 *)
(***************************************************************************)
\* the records of the roadmap snapshot that carry the failure sentinel
StoredSentinels ==
  IF githubCache = NoRow THEN {}
  ELSE {x \in Range(JSONparse(githubCache.data)) :
          x.extractedDate = FailSentinel}

\* the timeline of the record is in the inference cache, written by a
\* retry that succeeded
Retried(x) ==
  LET key == getCacheKey(x.title, x.body)
  IN  /\ ItemRow(aiCache, x) # NoRow
      /\ ~ItemRow(aiCache, x).failed
      /\ Writes(aiWrites, key) > 1

\* C37: a step of the retry worker leaves both snapshots as they are, row
\* and time of write, and changes nothing but the inference cache, the
\* retry queue and the worker's own runs; so a record stored with the
\* failure sentinel keeps it when its retry has succeeded.
C37_WorkerLeavesSnapshots ==
  [][worker' # worker =>
       /\ githubCache' = githubCache
       /\ aksIssuesCache' = aksIssuesCache
       /\ StoredSentinels' = StoredSentinels
       /\ UNCHANGED <<req, currentProgress, published, sockets,
                      progressClients>>]_vars

\* the refresh is over and its snapshot holds a record with the failure
\* sentinel whose retry has succeeded since
C37_Witness ==
  /\ req[1].pc = "done" /\ githubCache # NoRow
  /\ \E x \in StoredSentinels : Retried(x)
  /\ ~WorkerBusy /\ now > githubCache.timestamp

(***************************************************************************)
(* C38: a success in the cache and a later failure                         *)
(***************************************************************************)
\* the row of the key is a success that has not expired
FreshSuccess(c, key) ==
  /\ key \in DOMAIN c
  /\ ~c[key].failed
  /\ now - c[key].timestamp < CACHE_DURATION

Draft(title) ==
  [roadmap |-> << << Node("i1", TRUE, title, <<"y">>, "Planned", <<"dev">>,
                          <<>>, <<>>) >> >>,
   issues |-> << << Node("i2", TRUE, title, <<"x">>, "", <<"dev">>,
                         <<>>, <<>>) >> >>]

OldData == Draft(<<"a">>)
NewData == Draft(<<"b">>)

OverlapInit ==
  /\ now = 0
  /\ ticks = 0
  /\ aiCache = <<>>
  /\ aiWrites = <<>>
  /\ call = [c \in Callers |-> IdleCall]
  /\ ncalls = 0
  /\ githubCache = NoRow
  /\ aksIssuesCache = NoRow
  /\ failedExtractionQueue = <<>>
  /\ currentProgress = NoProgress
  /\ upstream = OldData
  /\ req = [r \in Reqs |-> IdleReq]
  /\ nreqs = 0
  /\ progressClients = {}
  /\ sockets = [c \in Clients |-> NewSocket]
  /\ published = 0
  /\ worker = IdleWorker
  /\ fnArgs = <<>>
  /\ fnResult = <<>>

\* somebody edits the titles at the graph service
UpstreamEdit ==
  /\ upstream = OldData
  /\ upstream' = NewData
  /\ UNCHANGED <<clockVars, aiVars, callVars, snapshotVars,
                 failedExtractionQueue, currentProgress, req, nreqs,
                 progressVars, workerVars, fnVars>>

OverlapNext ==
  \/ \E r \in Reqs, coll \in Colls : ReqStart(r, coll, TRUE)
  \/ UpstreamEdit
  \/ \E r \in Reqs, g \in GraphResponses : IdsReturn(r, g)
  \/ \E r \in Reqs, g \in GraphResponses : PageReturn(r, g)
  \/ \E r \in Reqs : PageTimer(r)
  \/ \E r \in Reqs, response \in RefreshResponses :
       ItemInferenceReturn(r, 1, response)

OverlapSpec == OverlapInit /\ [][OverlapNext]_vars

\* the snapshot row of a collection
SnapshotOf(coll) == IF coll = "roadmap" THEN githubCache ELSE aksIssuesCache

\* the titles of a list of records
TitlesOf(data) == {x.title : x \in Range(data)}

\* the refresh has ended with the list it fetched after the edit
AnsweredNew(rq) == Answered(rq) /\ TitlesOf(rq.out) = {<<"b">>}

\* the refresh has ended with the list it fetched before the edit
AnsweredOld(rq) == Answered(rq) /\ TitlesOf(rq.out) = {<<"a">>}

TaskTitles ==
  { <<"a">>, <<"e","t","a"," ","a"," ","1">>,
    <<"a","n","a","l","y","s","i","s"," ","a"," ","1">> }

TaskBodies == {[i \in 1..n |-> "x"] : n \in 0..MaxBody}

TaskComments ==
  {[i \in 1..n |-> Comment("dev", "", <<"y">>, i, "u1")] : n \in 0..MaxComments}

TaskKeyInit ==
  /\ FnIdle
  /\ fnArgs \in [timeline : [title : TaskTitles, body : TaskBodies],
                 other : [title : {<<"a">>}, body : TaskBodies,
                          comments : TaskComments]]
  /\ fnResult = NoResult

\* the three functions compute their keys
TaskKeyCall ==
  /\ fnResult = NoResult
  /\ fnResult' = [t |-> "taskkeys",
                  timeline |-> getCacheKey(fnArgs.timeline.title,
                                           fnArgs.timeline.body),
                  eta |-> etaCacheKey(fnArgs.other.comments,
                                      fnArgs.other.title),
                  analysis |-> analysisCacheKey(fnArgs.other.title,
                                                fnArgs.other.body,
                                                fnArgs.other.comments)]
  /\ FnUnchanged

TaskKeyNext == TaskKeyCall

TaskKeySpec == TaskKeyInit /\ [][TaskKeyNext]_vars

\* C40 as stated: the timeline key of any title and body differs from the
\* ETA key and from the analysis key of any input, and these two differ
\* from each other.
C40_TaskSeparatedKeys ==
  fnResult.t = "taskkeys" =>
    /\ fnResult.timeline # fnResult.eta
    /\ fnResult.timeline # fnResult.analysis
    /\ fnResult.eta # fnResult.analysis
====
